---- MODULE Spec2Model ----
(***************************************************************************)
(* py2port: one-port and two-port frequency-domain algebra.                *)
(*                                                                         *)
(* Numbers.  The program computes with numpy float64/complex128 arrays.    *)
(* A real number of the model is 0 or q * S^e: q a non-zero rational       *)
(* (n/d in lowest terms) and S the magnitude 1e18 that divide()            *)
(* substitutes for a singular quotient.  Products and quotients are exact. *)
(* A sum of two numbers of the same order e is exact; a sum of two numbers *)
(* of different orders is the one of higher order, which is what binary64  *)
(* returns (1e18 + 2.0 == 1e18, 1.0 + 2e-18 == 1.0) for the sample values  *)
(* used here, whose rational parts stay within a few powers of two of 1.   *)
(* Rounding inside one order is not modelled.  A complex value is a pair   *)
(* of such reals, or one of the two non-finite outcomes of numpy's complex *)
(* division by zero: "nan" (some component is NaN, numpy.isnan is true)    *)
(* and "inf" (both components infinite, numpy.isnan is false).             *)
(***************************************************************************)
EXTENDS Integers, Sequences, FiniteSets, TLC

\* ------------------------------------------------------------------------
\* Bounds of the model
\* ------------------------------------------------------------------------
MaxLen == 2
MaxOps == 1
MaxN == 2
MaxParts == 3
MaxSamples == 3
MaxPoints == 2
MaxBits == 3
MaxPeriods == 2
Resolution == 4

\* ------------------------------------------------------------------------
\* Reals: 0, or (n/d) * S^e with S = 1e18
\* ------------------------------------------------------------------------
Abs(n) == IF n < 0 THEN -n ELSE n

RECURSIVE Gcd(_, _)
Gcd(m, n) == IF n = 0 THEN Abs(m) ELSE Gcd(n, m % Abs(n))

RZero == [n |-> 0, d |-> 1, e |-> 0]

RMk(n, d, e) ==
    IF n = 0 THEN RZero
    ELSE LET g == Gcd(n, d)
             s == IF d < 0 THEN -1 ELSE 1
         IN  [n |-> s * (n \div g), d |-> s * (d \div g), e |-> e]

RInt(n) == RMk(n, 1, 0)

RNeg(a) == [n |-> -a.n, d |-> a.d, e |-> a.e]

RAbs(a) == [n |-> Abs(a.n), d |-> a.d, e |-> a.e]

RAdd(a, b) ==
    IF a.n = 0 THEN b
    ELSE IF b.n = 0 THEN a
    ELSE IF a.e > b.e THEN a
    ELSE IF a.e < b.e THEN b
    ELSE LET g == Gcd(a.d, b.d)
         IN  RMk(a.n * (b.d \div g) + b.n * (a.d \div g), (a.d \div g) * b.d, a.e)

RSub(a, b) == RAdd(a, RNeg(b))

RMul(a, b) ==
    IF a.n = 0 \/ b.n = 0 THEN RZero
    ELSE LET g == Gcd(a.n, b.d)
             h == Gcd(b.n, a.d)
         IN  RMk((a.n \div g) * (b.n \div h), (a.d \div h) * (b.d \div g), a.e + b.e)

\* a / b for b # 0
RDiv(a, b) == RMul(a, RMk(b.d, b.n, -b.e))

\* |a| >= |b|
RAbsGe(a, b) ==
    IF b.n = 0 THEN TRUE
    ELSE IF a.n = 0 THEN FALSE
    ELSE IF a.e # b.e THEN a.e > b.e
    ELSE Abs(a.n) * b.d >= Abs(b.n) * a.d

\* ------------------------------------------------------------------------
\* Complex values: finite pairs, NaN, and infinity without a NaN part
\* ------------------------------------------------------------------------
Cx(re, im) == [k |-> "fin", re |-> re, im |-> im]

NaN == [k |-> "nan", re |-> RZero, im |-> RZero]

Inf == [k |-> "inf", re |-> RZero, im |-> RZero]

CInt(n) == Cx(RInt(n), RZero)

CImag(n) == Cx(RZero, RInt(n))

CZero == CInt(0)

COne == CInt(1)

IsFinite(z) == z.k = "fin"

IsZero(z) == z.k = "fin" /\ z.re.n = 0 /\ z.im.n = 0

CAdd(z, w) ==
    IF z.k = "nan" \/ w.k = "nan" THEN NaN
    ELSE IF z.k = "inf" /\ w.k = "inf" THEN NaN
    ELSE IF z.k = "inf" \/ w.k = "inf" THEN Inf
    ELSE Cx(RAdd(z.re, w.re), RAdd(z.im, w.im))

CNeg(z) == IF z.k = "fin" THEN Cx(RNeg(z.re), RNeg(z.im)) ELSE z

CSub(z, w) == CAdd(z, CNeg(w))

CMul(z, w) ==
    IF z.k = "fin" /\ w.k = "fin"
    THEN Cx(RSub(RMul(z.re, w.re), RMul(z.im, w.im)),
            RAdd(RMul(z.re, w.im), RMul(z.im, w.re)))
    ELSE NaN

\* numpy's complex true division x/y of finite values, y # 0 (Smith's
\* algorithm, as in numpy's CDOUBLE_divide loop).
\* The branch |y.re| >= |y.im|: rat = y.im/y.re, scl = 1/(y.re + y.im*rat)
SmithByReScaled(x, rat, scl) ==
    Cx(RMul(RAdd(x.re, RMul(x.im, rat)), scl), RMul(RSub(x.im, RMul(x.re, rat)), scl))

SmithByRe(x, y, rat) ==
    SmithByReScaled(x, rat, RDiv(RInt(1), RAdd(y.re, RMul(y.im, rat))))

\* The branch |y.re| < |y.im|: rat = y.re/y.im, scl = 1/(y.im + y.re*rat)
SmithByImScaled(x, rat, scl) ==
    Cx(RMul(RAdd(RMul(x.re, rat), x.im), scl), RMul(RSub(RMul(x.im, rat), x.re), scl))

SmithByIm(x, y, rat) ==
    SmithByImScaled(x, rat, RDiv(RInt(1), RAdd(y.im, RMul(y.re, rat))))

Smith(x, y) ==
    IF RAbsGe(RAbs(y.re), RAbs(y.im))
    THEN SmithByRe(x, y, RDiv(y.im, y.re))
    ELSE SmithByIm(x, y, RDiv(y.re, y.im))

\* numpy's complex true division x/y.  With y == 0 each component of x is
\* divided by 0.0: a non-zero component gives an infinity, a zero one NaN.
CDiv(x, y) ==
    IF x.k = "nan" \/ y.k = "nan" THEN NaN
    ELSE IF y.k = "inf" THEN NaN
    ELSE IF IsZero(y)
    THEN IF x.k = "inf" \/ (x.re.n # 0 /\ x.im.n # 0) THEN Inf ELSE NaN
    ELSE IF x.k = "inf" THEN Inf
    ELSE Smith(x, y)

isnan(z) == z.k = "nan"

\* the constant divide() substitutes for a NaN quotient: 1e18 = 1 * S^1
BIG == Cx([n |-> 1, d |-> 1, e |-> 1], RZero)

\* ------------------------------------------------------------------------
\* numpy arrays: sequences of complex values, operated on element-wise
\* ------------------------------------------------------------------------
\* an array given by its elements, held as a tuple
Arr(f) == f \o << >>

ones(n) == Arr([i \in 1..n |-> COne])

zeros(n) == Arr([i \in 1..n |-> CZero])

full(n, z) == Arr([i \in 1..n |-> z])

VAdd(u, v) == Arr([i \in 1..Len(u) |-> CAdd(u[i], v[i])])

VMul(u, v) == Arr([i \in 1..Len(u) |-> CMul(u[i], v[i])])

VNeg(u) == Arr([i \in 1..Len(u) |-> CNeg(u[i])])

VScale(z, u) == Arr([i \in 1..Len(u) |-> CMul(z, u[i])])

\* a frequency vector: the angular frequency samples fc.rad
Freq(rad) == [rad |-> Arr([i \in 1..Len(rad) |-> CInt(rad[i])])]

len(fc) == Len(fc.rad)

\* oneport.divide / twoport.divide: z = x/y ; z[isnan(z)] = 1e18
\* faulty variant: the quotient as numpy returns it, nothing replaced
divide_raw(x, y) == Arr([i \in 1..Len(y) |-> CDiv(x[i], y[i])])

\* z[numpy.isnan(z)] = 1e18, for one entry q of z
Substitute(q) == IF isnan(q) THEN BIG ELSE q

\* z = x/y; z[numpy.isnan(z)] = 1e18; return z
divide(x, y) == Arr([i \in 1..Len(y) |-> Substitute(CDiv(x[i], y[i]))])

\* ------------------------------------------------------------------------
\* One-port nodes
\* ------------------------------------------------------------------------
OnePort == [tag |-> "OnePort"]

R(value) == [tag |-> "R", value |-> value]

C(value) == [tag |-> "C", value |-> value]

L(value) == [tag |-> "L", value |-> value]

InLine(a, b) == [tag |-> "InLine", a |-> a, b |-> b]

Parallel(a, b) == [tag |-> "Parallel", a |-> a, b |-> b]

RECURSIVE Z(_, _)

OnePort_Z(self, fc) == VAdd(VScale(CZero, fc.rad), VScale(CZero, fc.rad))

R_Z(self, fc) == VAdd(full(len(fc), CInt(self.value)), VScale(CZero, fc.rad))

C_Z(self, fc) ==
    divide(ones(len(fc)), VScale(CImag(1), VScale(CInt(self.value), fc.rad)))

L_Z(self, fc) == VScale(CImag(1), VScale(CInt(self.value), fc.rad))

\* faulty variant: the second operand is left out
InLine_Z_first(self, fc) == Z(self.a, fc)

InLine_Z(self, fc) == VAdd(Z(self.a, fc), Z(self.b, fc))

\* faulty variant: the reciprocal of the sum instead of the sum of reciprocals
Parallel_Z_of_sum(self, fc) ==
    divide(ones(len(fc)), divide(ones(len(fc)), VAdd(Z(self.a, fc), Z(self.b, fc))))

Parallel_Z(self, fc) ==
    divide(ones(len(fc)),
           VAdd(divide(ones(len(fc)), Z(self.a, fc)),
                divide(ones(len(fc)), Z(self.b, fc))))

Z(self, fc) ==
    CASE self.tag = "OnePort" -> OnePort_Z(self, fc)
      [] self.tag = "R" -> R_Z(self, fc)
      [] self.tag = "C" -> C_Z(self, fc)
      [] self.tag = "L" -> L_Z(self, fc)
      [] self.tag = "InLine" -> InLine_Z(self, fc)
      [] self.tag = "Parallel" -> Parallel_Z(self, fc)

\* OnePort.__mul__ and OnePort.__div__
OnePort_mul(self, a) == InLine(self, a)

OnePort_div(self, a) == Parallel(self, a)

\* Cb: return (C(c)*L(esl)*R(esr))
Cb(c, esl, esr) == OnePort_mul(OnePort_mul(C(c), L(esl)), R(esr))

\* OnePort.__pow__: x = self; for i in range(0,a): x = InLine(x, self)
RECURSIVE pow_loop(_, _, _)
pow_loop(x, self, n) == IF n <= 0 THEN x ELSE pow_loop(InLine(x, self), self, n - 1)

\* faulty variant: one application fewer
OnePort_pow_short(self, a) == pow_loop(self, self, a - 1)

OnePort_pow(self, a) == pow_loop(self, self, a)

\* OnePort.__floordiv__: for i in range(0,a): x = Parallel(self, self);
\* return x -- x is not bound before the loop
Unbound == [tag |-> "unbound"]

RECURSIVE floordiv_loop(_, _, _)
floordiv_loop(x, self, n) ==
    IF n <= 0 THEN x ELSE floordiv_loop(Parallel(self, self), self, n - 1)

OnePort_floordiv(self, a) == floordiv_loop(Unbound, self, a)

\* ------------------------------------------------------------------------
\* Two-port nodes.  An ABCD array of shape (2,2,len(fc)) is
\* << <<a00, a01>>, <<a10, a11>> >>, each entry an array over the samples;
\* the Python index [r,c] is [r+1][c+1] here.
\* ------------------------------------------------------------------------
TwoPort == [tag |-> "TwoPort"]

Shunt(device) == [tag |-> "Shunt", Z |-> device]

Series(device) == [tag |-> "Series", Z |-> device]

Connect(a, b) == [tag |-> "Connect", a |-> a, b |-> b]

\* the 2x2 matrix A[:,:,i]
Slice(M, i) == << << M[1][1][i], M[1][2][i] >>, << M[2][1][i], M[2][2][i] >> >>

\* the (2,2,n) array whose slices are m[1], ..., m[n]
Stack(m, n) ==
    << << Arr([i \in 1..n |-> m[i][1][1]]), Arr([i \in 1..n |-> m[i][1][2]]) >>,
       << Arr([i \in 1..n |-> m[i][2][1]]), Arr([i \in 1..n |-> m[i][2][2]]) >> >>

\* faulty variant: the element-wise product
dot_elementwise(P, Q) ==
    << << CMul(P[1][1], Q[1][1]), CMul(P[1][2], Q[1][2]) >>,
       << CMul(P[2][1], Q[2][1]), CMul(P[2][2], Q[2][2]) >> >>

\* numpy.dot of two 2x2 matrices
dot(P, Q) ==
    << << CAdd(CMul(P[1][1], Q[1][1]), CMul(P[1][2], Q[2][1])),
          CAdd(CMul(P[1][1], Q[1][2]), CMul(P[1][2], Q[2][2])) >>,
       << CAdd(CMul(P[2][1], Q[1][1]), CMul(P[2][2], Q[2][1])),
          CAdd(CMul(P[2][1], Q[1][2]), CMul(P[2][2], Q[2][2])) >> >>

Singular == << >>

\* |re| + |im|, the magnitude LAPACK pivots on
cabs1(z) == RAdd(RAbs(z.re), RAbs(z.im))

\* numpy.linalg.inv of a 2x2 matrix: LAPACK gesv on the identity (LU with
\* partial pivoting, then forward and back substitution); an exactly zero
\* pivot makes numpy raise LinAlgError.
\* Back substitution: the rows of the solution from its second row << x21, x22 >>
BackSubstitute(p, b, x21, x22) ==
    << << CDiv(CSub(b[1][1], CMul(p[1][2], x21)), p[1][1]),
          CDiv(CSub(b[1][2], CMul(p[1][2], x22)), p[1][1]) >>,
       << x21, x22 >> >>

\* Forward substitution with the multiplier l, then division by the pivot u22
Solve(p, b, l, u22) ==
    IF IsZero(u22) THEN Singular
    ELSE BackSubstitute(p, b,
                        CDiv(CSub(b[2][1], CMul(l, b[1][1])), u22),
                        CDiv(CSub(b[2][2], CMul(l, b[1][2])), u22))

\* Elimination below the pivot p[1][1] with the multiplier l
Eliminate(p, b, l) == Solve(p, b, l, CSub(p[2][2], CMul(l, p[1][2])))

\* LU of the row-permuted matrix p against the permuted identity b
Factor(p, b) ==
    IF IsZero(p[1][1]) THEN Singular
    ELSE Eliminate(p, b, CMul(p[2][1], CDiv(COne, p[1][1])))

\* Partial pivoting: the rows of M and of the identity, swapped when the
\* second row has the larger first entry
Pivot(M, swap) ==
    Factor(IF swap THEN << M[2], M[1] >> ELSE M,
           IF swap THEN << << CZero, COne >>, << COne, CZero >> >>
                   ELSE << << COne, CZero >>, << CZero, COne >> >>)

inv(M) == Pivot(M, ~RAbsGe(cabs1(M[1][1]), cabs1(M[2][1])))

RECURSIVE A(_, _)

TwoPort_A(self, fc) ==
    << << VAdd(VScale(CZero, fc.rad), full(len(fc), CInt(1))),
          VAdd(VScale(CZero, fc.rad), full(len(fc), CInt(2))) >>,
       << VAdd(VScale(CZero, fc.rad), full(len(fc), CInt(3))),
          VAdd(VScale(CZero, fc.rad), full(len(fc), CInt(4))) >> >>

\* faulty variant: the impedance where the admittance belongs
Shunt_A_impedance(self, fc) ==
    << << ones(len(fc)), zeros(len(fc)) >>,
       << Z(self.Z, fc), ones(len(fc)) >> >>

Shunt_A(self, fc) ==
    << << ones(len(fc)), zeros(len(fc)) >>,
       << divide(ones(len(fc)), Z(self.Z, fc)), ones(len(fc)) >> >>

Series_A(self, fc) ==
    << << ones(len(fc)), Z(self.Z, fc) >>,
       << zeros(len(fc)), ones(len(fc)) >> >>

Connect_A(self, fc) ==
    LET AA == A(self.a, fc)
        BB == A(self.b, fc)
    IN  Stack(Arr([i \in 1..len(fc) |-> dot(Slice(AA, i), Slice(BB, i))]), len(fc))

A(self, fc) ==
    CASE self.tag = "TwoPort" -> TwoPort_A(self, fc)
      [] self.tag = "Shunt" -> Shunt_A(self, fc)
      [] self.tag = "Series" -> Series_A(self, fc)
      [] self.tag = "Connect" -> Connect_A(self, fc)

\* what a call evaluates to when it raises numpy.linalg.LinAlgError
LinAlgError == [raised |-> "LinAlgError"]

\* for i in range(0,len(fc)): a[:,:,i] = numpy.linalg.inv(A[:,:,i])
InvertEach(AA, n) == Arr([i \in 1..n |-> inv(Slice(AA, i))])

Inverses(self, fc) == InvertEach(A(self, fc), len(fc))

\* the array a of the inverses, or LinAlgError when a sample's matrix is singular
Inverted(m, n) == IF \E i \in 1..n : m[i] = Singular THEN LinAlgError ELSE Stack(m, n)

\* faulty variant: divides by the entry A[0,1]
Zin_return_by_B(AA) == divide(AA[1][1], AA[1][2])

\* return divide(A[0,0],A[1,0])
Zin_return(AA) == divide(AA[1][1], AA[2][1])

Zin(self, fc) == Zin_return(A(self, fc))

\* return -divide(a[0,0],a[1,0])
Zout_return(a) == IF a = LinAlgError THEN LinAlgError ELSE VNeg(divide(a[1][1], a[2][1]))

Zout(self, fc) == Zout_return(Inverted(Inverses(self, fc), len(fc)))

Gf(self, fc) == divide(ones(len(fc)), A(self, fc)[1][1])

\* return -divide(1,a[0,0])
Gr_return(a, n) == IF a = LinAlgError THEN LinAlgError ELSE VNeg(divide(ones(n), a[1][1]))

Gr(self, fc) == Gr_return(Inverted(Inverses(self, fc), len(fc)), len(fc))

\* TwoPort.__add__, __mul__, __div__
TwoPort_add(self, a) == Connect(self, a)

TwoPort_mul(self, a) == TwoPort_add(self, Series(a))

TwoPort_div(self, a) == TwoPort_add(self, Shunt(a))

\* TwoPort.__pow__: x = self; for i in range(0,a): x = Connect(x, self)
RECURSIVE tpow_loop(_, _, _)
tpow_loop(x, self, n) == IF n <= 0 THEN x ELSE tpow_loop(Connect(x, self), self, n - 1)

\* faulty variant: one application fewer
TwoPort_pow_short(self, a) == tpow_loop(self, self, a - 1)

TwoPort_pow(self, a) == tpow_loop(self, self, a)

\* the number of Shunt, Series and base two-ports a two-port is made of
RECURSIVE NParts(_)
NParts(t) == IF t.tag = "Connect" THEN NParts(t.a) + NParts(t.b) ELSE 1

\* ------------------------------------------------------------------------
\* State
\* ------------------------------------------------------------------------
VARIABLES
    fc,     \* the frequency vector the queries are made with
    x,      \* the one-port object the session holds
    net,    \* the two-port object the session holds
    hist,   \* the operation that built x or net: [op, self, n]
    out,    \* the array returned by the last query: [op, val]
    err,    \* the exception the last operation raised, or "none"
    nops,   \* the number of composition operations x or net went through
    vi,     \* the waveform object the session drives (Vi)
    vo,     \* the waveform object the last drive returned (Vo)
    pad     \* the padded time and voltage buffers of the last drive

vars == << fc, x, net, hist, out, err, nops, vi, vo, pad >>

RadSamples == {0, 1, 2}

RECURSIVE IncreasingSeqs(_)
IncreasingSeqs(n) ==
    IF n = 0 THEN {<< >>}
    ELSE LET shorter == IncreasingSeqs(n - 1)
         IN  shorter \cup
             {Append(s, r) : s \in {t \in shorter : Len(t) = n - 1}, r \in RadSamples}

IsIncreasing(s) == \A i \in 1..(Len(s) - 1) : s[i] < s[i + 1]

FreqVectors ==
    {Freq(s) : s \in {t \in IncreasingSeqs(MaxLen) : Len(t) >= 1 /\ IsIncreasing(t)}}

Devices == {OnePort, R(2), C(0), C(1), L(1), Cb(1, 1, 2)}

NoNet == [tag |-> "none"]

NoWave == [tag |-> "none"]

NoPad == [time |-> << >>, voltage |-> << >>]

NoOut == [op |-> "none", val |-> << >>]

Built(op, self, n) == [op |-> op, self |-> self, n |-> n]

\* ------------------------------------------------------------------------
\* One-port session
\* ------------------------------------------------------------------------
InitOnePort ==
    /\ fc \in FreqVectors
    /\ x \in Devices
    /\ net = NoNet
    /\ hist = Built("init", x, 0)
    /\ out = NoOut
    /\ err = "none"
    /\ nops = 0
    /\ vi = NoWave
    /\ vo = NoWave
    /\ pad = NoPad

\* R(...), C(...), L(...), OnePort(): a new primitive device
NewDevice ==
    \E d \in Devices :
        /\ x' = d
        /\ hist' = Built("init", d, 0)
        /\ out' = NoOut
        /\ err' = "none"
        /\ nops' = 0
        /\ UNCHANGED << vi, vo, pad, fc, net >>

\* x = x * a
Mul ==
    \E a \in Devices \cup {x} :
        /\ nops < MaxOps
        /\ x' = OnePort_mul(x, a)
        /\ hist' = Built("mul", x, 0)
        /\ out' = NoOut
        /\ err' = "none"
        /\ nops' = nops + 1
        /\ UNCHANGED << vi, vo, pad, fc, net >>

\* x = x / a
Div ==
    \E a \in Devices \cup {x} :
        /\ nops < MaxOps
        /\ x' = OnePort_div(x, a)
        /\ hist' = Built("div", x, 0)
        /\ out' = NoOut
        /\ err' = "none"
        /\ nops' = nops + 1
        /\ UNCHANGED << vi, vo, pad, fc, net >>

\* x = x ** n
Pow ==
    \E n \in 0..MaxN :
        /\ nops < MaxOps
        /\ x' = OnePort_pow(x, n)
        /\ hist' = Built("pow", x, n)
        /\ out' = NoOut
        /\ err' = "none"
        /\ nops' = nops + 1
        /\ UNCHANGED << vi, vo, pad, fc, net >>

\* x = x // n ; returning the unbound local raises UnboundLocalError and
\* the assignment does not happen
FloorDiv ==
    \E n \in 0..MaxN :
        LET r == OnePort_floordiv(x, n)
        IN  /\ nops < MaxOps
            /\ x' = IF r = Unbound THEN x ELSE r
            /\ hist' = Built("floordiv", x, n)
            /\ out' = NoOut
            /\ err' = IF r = Unbound THEN "UnboundLocalError" ELSE "none"
            /\ nops' = nops + 1
            /\ UNCHANGED << vi, vo, pad, fc, net >>

\* the session holds one result array at a time; it drops it here
Discard ==
    /\ out # NoOut
    /\ out' = NoOut
    /\ UNCHANGED << vi, vo, pad, fc, x, net, hist, err, nops >>

\* x.Z(fc)
QueryZ ==
    /\ out = NoOut
    /\ out' = [op |-> "Z", val |-> Z(x, fc)]
    /\ err' = "none"
    /\ UNCHANGED << vi, vo, pad, fc, x, net, hist, nops >>

NextOnePort == NewDevice \/ Mul \/ Div \/ Pow \/ FloorDiv \/ QueryZ \/ Discard

SpecOnePort == InitOnePort /\ [][NextOnePort]_vars

\* ------------------------------------------------------------------------
\* Two-port session
\* ------------------------------------------------------------------------
\* the two-port session works at DC and at 1 rad/s: the first brings out the
\* zero impedances and the 1e18 substitutes, the second complex values
FreqVectors2 == {Freq(<< 0, 1 >>)}

\* the devices the session puts across the line and in the line: a short, a
\* resistor, a lossy inductor, and a negative resistance with a capacitor
ShuntDevices == {OnePort, R(1), InLine(R(1), L(1))}

SeriesDevices == {R(1), InLine(R(1), L(1)), InLine(R(-2), C(1))}

Atoms2 == {TwoPort} \cup {Shunt(d) : d \in ShuntDevices} \cup {Series(d) : d \in SeriesDevices}

InitTwoPort ==
    /\ fc \in FreqVectors2
    /\ x = OnePort
    /\ net \in Atoms2
    /\ hist = Built("init", net, 0)
    /\ out = NoOut
    /\ err = "none"
    /\ nops = 0
    /\ vi = NoWave
    /\ vo = NoWave
    /\ pad = NoPad

\* TwoPort(), Shunt(device), Series(device): a new two-port
NewTwoPort ==
    \E t \in Atoms2 :
        /\ net' = t
        /\ hist' = Built("init", t, 0)
        /\ out' = NoOut
        /\ err' = "none"
        /\ UNCHANGED << vi, vo, pad, fc, x, nops >>

\* net = net + a
Add ==
    \E a \in Atoms2 \cup {net} :
        /\ NParts(net) + NParts(a) <= MaxParts
        /\ net' = TwoPort_add(net, a)
        /\ hist' = Built("add", net, 0)
        /\ out' = NoOut
        /\ err' = "none"
        /\ UNCHANGED << vi, vo, pad, fc, x, nops >>

\* net = net * d, which is net + Series(d)
TMul ==
    \E d \in SeriesDevices :
        /\ NParts(net) + 1 <= MaxParts
        /\ net' = TwoPort_mul(net, d)
        /\ hist' = Built("add", net, 0)
        /\ out' = NoOut
        /\ err' = "none"
        /\ UNCHANGED << vi, vo, pad, fc, x, nops >>

\* net = net / d, which is net + Shunt(d)
TDiv ==
    \E d \in ShuntDevices :
        /\ NParts(net) + 1 <= MaxParts
        /\ net' = TwoPort_div(net, d)
        /\ hist' = Built("add", net, 0)
        /\ out' = NoOut
        /\ err' = "none"
        /\ UNCHANGED << vi, vo, pad, fc, x, nops >>

\* net = net ** n
TPow ==
    \E n \in 0..MaxN :
        /\ NParts(net) * (n + 1) <= MaxParts
        /\ net' = TwoPort_pow(net, n)
        /\ hist' = Built("pow", net, n)
        /\ out' = NoOut
        /\ err' = "none"
        /\ UNCHANGED << vi, vo, pad, fc, x, nops >>

\* a query either returns an array or raises
Return(op, val) ==
    /\ out = NoOut
    /\ out' = IF val = LinAlgError THEN NoOut ELSE [op |-> op, val |-> val]
    /\ err' = IF val = LinAlgError THEN "LinAlgError" ELSE "none"
    /\ UNCHANGED << vi, vo, pad, fc, x, net, hist, nops >>

QueryA == Return("A", A(net, fc))

QueryZin == Return("Zin", Zin(net, fc))

QueryGf == Return("Gf", Gf(net, fc))

\* Zout and Gr invert every sample's matrix first; numpy.linalg.inv raises
\* LinAlgError on a singular one and nothing is returned
QueryZout == Return("Zout", Zout(net, fc))

QueryGr == Return("Gr", Gr(net, fc))

NextTwoPort ==
    \/ NewTwoPort \/ Add \/ TMul \/ TDiv \/ TPow
    \/ QueryA \/ QueryZin \/ QueryZout \/ QueryGf \/ QueryGr \/ Discard

SpecTwoPort == InitTwoPort /\ [][NextTwoPort]_vars

\* ------------------------------------------------------------------------
\* Waveforms (waveform.py).  A drive transforms the padded trace with
\* numpy.fft; the transform of six samples needs the sixth roots of unity,
\* 1/2 +- (sqrt(3)/2)j and their powers.  In this section a complex value
\* [re, im] stands for re + im*sqrt(3)*j, so that these roots and every
\* value computed from them and from real samples and resistances are exact.
\* Sums, negation and the tests for zero and NaN are those of the values
\* above; products and quotients carry the factor 3 of (sqrt(3)*j)^2 = -3.
\* ------------------------------------------------------------------------
SMul(z, w) ==
    IF z.k = "fin" /\ w.k = "fin"
    THEN Cx(RSub(RMul(z.re, w.re), RMul(RInt(3), RMul(z.im, w.im))),
            RAdd(RMul(z.re, w.im), RMul(z.im, w.re)))
    ELSE NaN

\* numpy's complex true division (Smith's algorithm) on such values.
\* The branch |y.re| >= |y.im|*sqrt(3), with rat*sqrt(3) the ratio imag/real
SSmithByReScaled(num, rat, scl) ==
    Cx(RMul(RAdd(num.re, RMul(RInt(3), RMul(num.im, rat))), scl),
       RMul(RSub(num.im, RMul(num.re, rat)), scl))

SSmithByRe(num, den, rat) ==
    SSmithByReScaled(num, rat, RDiv(RInt(1), RAdd(den.re, RMul(RInt(3), RMul(den.im, rat)))))

\* The branch |den.re| < |den.im|*sqrt(3), with rat/sqrt(3) the ratio real/imag
SSmithByImScaled(num, rat, scl) ==
    Cx(RMul(RAdd(RMul(num.re, rat), RMul(RInt(3), num.im)), scl),
       RMul(RSub(RMul(num.im, rat), num.re), scl))

SSmithByIm(num, den, rat) ==
    SSmithByImScaled(num, rat, RDiv(RInt(1), RAdd(RMul(RInt(3), den.im), RMul(den.re, rat))))

SSmith(num, den) ==
    IF RAbsGe(RMul(den.re, den.re), RMul(RInt(3), RMul(den.im, den.im)))
    THEN SSmithByRe(num, den, RDiv(den.im, den.re))
    ELSE SSmithByIm(num, den, RDiv(den.re, den.im))

SDiv(num, den) ==
    IF num.k = "nan" \/ den.k = "nan" THEN NaN
    ELSE IF den.k = "inf" THEN NaN
    ELSE IF IsZero(den)
    THEN IF num.k = "inf" \/ (num.re.n # 0 /\ num.im.n # 0) THEN Inf ELSE NaN
    ELSE IF num.k = "inf" THEN Inf
    ELSE SSmith(num, den)

\* element-wise product and quotient of two arrays, and twoport.divide
SVMul(u, v) == Arr([i \in 1..Len(u) |-> SMul(u[i], v[i])])

SVDiv(u, v) == Arr([i \in 1..Len(u) |-> SDiv(u[i], v[i])])

Sdivide(u, v) == Arr([i \in 1..Len(v) |-> Substitute(SDiv(u[i], v[i]))])

\* exp(2*pi*j*k/n) for n dividing 6
exp2pij(k, n) ==
    CASE (k * (6 \div n)) % 6 = 0 -> Cx(RInt(1), RZero)
      [] (k * (6 \div n)) % 6 = 1 -> Cx(RMk(1, 2, 0), RMk(1, 2, 0))
      [] (k * (6 \div n)) % 6 = 2 -> Cx(RMk(-1, 2, 0), RMk(1, 2, 0))
      [] (k * (6 \div n)) % 6 = 3 -> Cx(RInt(-1), RZero)
      [] (k * (6 \div n)) % 6 = 4 -> Cx(RMk(-1, 2, 0), RMk(-1, 2, 0))
      [] (k * (6 \div n)) % 6 = 5 -> Cx(RMk(1, 2, 0), RMk(-1, 2, 0))

\* the sum of the first i entries of an array
RECURSIVE CSum(_, _)
CSum(u, i) == IF i = 0 THEN CZero ELSE CAdd(CSum(u, i - 1), u[i])

\* numpy.fft.fft(data, n): X[k] = sum over m of data[m] * exp(-2*pi*j*k*m/n)
fft(data, n) ==
    Arr([k \in 1..n |->
        CSum([m \in 1..n |-> SMul(data[m], exp2pij(-((k - 1) * (m - 1)), n))], n)])

\* numpy.fft.ifft(data, n): x[m] = (1/n) * sum over k of data[k] * exp(2*pi*j*k*m/n)
ifft(data, n) ==
    Arr([m \in 1..n |->
        SMul(Cx(RMk(1, n, 0), RZero),
             CSum([k \in 1..n |-> SMul(data[k], exp2pij((k - 1) * (m - 1), n))], n))])

\* numpy.fft.fftfreq(n, d), in units of 1/(n*d): 0, 1, ..., -2, -1
fftfreq(n) == [i \in 1..n |-> IF i - 1 <= (n - 1) \div 2 THEN i - 1 ELSE i - 1 - n]

\* the frequency vector of a transform of n samples: rad is in units of
\* 2*pi/(n*ts), bin is the sample's place on the frequency axis
FreqOfTransform(n) == [rad |-> Freq(Arr(fftfreq(n))).rad, bin |-> Arr(fftfreq(n))]

\* T(length, Zc): a lossless line.  length is the line's delay
\* length*sqrt(er)/c in sample steps ts, so that H is a root of unity
T(length, Zc) == [tag |-> "T", length |-> length, Zc |-> Zc]

\* H = numpy.exp(-self.length*y), y = (sqrt(er)/c)*1j*fc.rad
T_H(self, f) == Arr([i \in 1..len(f) |-> exp2pij(-(self.length * f.bin[i]), len(f))])

\* the entries of T.A from H and 1/H
T_A_of(self, H, iH, n) ==
    << << SVMul(VAdd(iH, H), full(n, Cx(RMk(1, 2, 0), RZero))),
          SVMul(full(n, Cx(RMk(self.Zc, 2, 0), RZero)), VAdd(iH, VNeg(H))) >>,
       << SVMul(full(n, Cx(RMk(1, 2 * self.Zc, 0), RZero)), VAdd(iH, VNeg(H))),
          SVMul(VAdd(iH, H), full(n, Cx(RMk(1, 2, 0), RZero))) >> >>

T_A_from(self, H, n) == T_A_of(self, H, Sdivide(ones(n), H), n)

T_A(self, f) == T_A_from(self, T_H(self, f), len(f))

\* numpy.dot of two 2x2 matrices of such values
Sdot(P, Q) ==
    << << CAdd(SMul(P[1][1], Q[1][1]), SMul(P[1][2], Q[2][1])),
          CAdd(SMul(P[1][1], Q[1][2]), SMul(P[1][2], Q[2][2])) >>,
       << CAdd(SMul(P[2][1], Q[1][1]), SMul(P[2][2], Q[2][1])),
          CAdd(SMul(P[2][1], Q[1][2]), SMul(P[2][2], Q[2][2])) >> >>

\* the ABCD array of a device at the transform's frequencies: a line, a
\* cascade, or a resistive Shunt, Series or base two-port (real entries)
RECURSIVE A_at(_, _)
Connect_A_at(AA, BB, n) ==
    Stack(Arr([i \in 1..n |-> Sdot(Slice(AA, i), Slice(BB, i))]), n)

A_at(self, f) ==
    CASE self.tag = "T" -> T_A(self, f)
      [] self.tag = "Connect" -> Connect_A_at(A_at(self.a, f), A_at(self.b, f), len(f))
      [] OTHER -> A(self, f)

\* TwoPort.Zin and TwoPort.Gf at the transform's frequencies
Zin_at(self, f) == Sdivide(A_at(self, f)[1][1], A_at(self, f)[2][1])

Gf_at(self, f) == Sdivide(ones(len(f)), A_at(self, f)[1][1])

\* what Waveform(...) evaluates to when the length check fails: the raise
\* statement names RunetimeError, which is not defined, so it is NameError
NameError == [raised |-> "NameError"]

\* Waveform.__init__
Waveform(time, voltage, tb, tr) ==
    IF Len(time) # Len(voltage) THEN NameError
    ELSE [tag |-> "Waveform", time |-> time, voltage |-> voltage,
          current |-> zeros(Len(time)), tb |-> tb, tr |-> tr]

\* numpy.arange(start, stop, step) for step > 0: ceil((stop - start)/step)
\* samples.  The quotient is computed in binary64; up = 1 is its rounding
\* to a value above the exact quotient, which the ceiling then takes one
\* sample further.
arange(start, stop, step, up) ==
    Arr([i \in 1..(((stop - start) + step - 1) \div step + up) |-> start + (i - 1) * step])

\* time = numpy.arange(self.time[0]-tb*ts, self.time[-1]+tb*ts, ts), tb = len(self.time)
PaddedTime(self, ts, tb, up) ==
    arange(self.time[1] - tb * ts, self.time[tb] + tb * ts, ts, up)

\* voltage = numpy.zeros(len(time)); voltage[0:tb] = self.voltage[0];
\* voltage[-tb-1:-1] = self.voltage[-1]
PaddedEnds(self, tb, n) ==
    Arr([i \in 1..n |->
        IF i >= n - tb /\ i <= n - 1 THEN self.voltage[tb]
        ELSE IF i <= tb THEN self.voltage[1]
        ELSE CZero])

\* voltage[tb:-tb] = self.voltage, where the slice has len(self.voltage) places
PaddedVoltage(self, tb, n) ==
    Arr([i \in 1..n |->
        IF i >= tb + 1 /\ i <= n - tb THEN self.voltage[i - tb]
        ELSE PaddedEnds(self, tb, n)[i]])

\* x[tb:-tb]
Unpad(u, tb) == SubSeq(u, tb + 1, Len(u) - tb)

\* faulty variant: the spectrum multiplied by Zin
InputCurrent_times(Vi, Zi, tb) == Unpad(ifft(SVMul(Vi, Zi), Len(Vi)), tb)

\* self.current = _ifft(time, Vi/Zi)[tb:-tb]
InputCurrent(Vi, Zi, tb) == Unpad(ifft(SVDiv(Vi, Zi), Len(Vi)), tb)

\* vo = _ifft(time, Vi*A); vo[tb:-tb]
OutputVoltage(Vi, Gain, tb) == Unpad(ifft(SVMul(Vi, Gain), Len(Vi)), tb)

\* faulty variant: the call clears self.current whatever happens next
Outcome_current_cleared(raised, time, voltage, current, returned) ==
    [err |-> raised, pad |-> [time |-> time, voltage |-> voltage],
     current |-> zeros(Len(current)), returned |-> returned]

\* the outcome of a call of __rshift__: the exception raised or "none", the
\* padded buffers, self.current after the call and the object returned
Outcome(raised, time, voltage, current, returned) ==
    [err |-> raised, pad |-> [time |-> time, voltage |-> voltage],
     current |-> current, returned |-> returned]

\* from f, Vi = _fft(time, voltage) to the return
Transformed(self, device, time, voltage, tb, f, Vi) ==
    Outcome("none", time, voltage,
            InputCurrent(Vi, Zin_at(device, f), tb),
            Waveform(Unpad(time, tb), OutputVoltage(Vi, Gf_at(device, f), tb),
                     self.tb, self.tr))

\* the padding: the assignment of self.voltage into a slice of another
\* length raises ValueError
Padded(self, device, time, tb) ==
    IF Len(time) - 2 * tb # Len(self.voltage)
    THEN Outcome("ValueError", time, PaddedEnds(self, tb, Len(time)), self.current, NoWave)
    ELSE Transformed(self, device, time, PaddedVoltage(self, tb, Len(time)), tb,
                     FreqOfTransform(Len(time)),
                     fft(PaddedVoltage(self, tb, Len(time)), Len(time)))

\* Waveform.__rshift__; self.time[1] of a one-sample waveform raises IndexError
rshift(self, device, up) ==
    IF Len(self.time) < 2
    THEN Outcome("IndexError", << >>, << >>, self.current, NoWave)
    ELSE Padded(self, device,
                PaddedTime(self, self.time[2] - self.time[1], Len(self.time), up),
                Len(self.time))

\* ------------------------------------------------------------------------
\* Waveform session: a waveform on a uniform time grid, a device, and drives
\* ------------------------------------------------------------------------
Levels == {CInt(0), CInt(1)}

\* the sample times 0, ts, 2*ts, ... in units of ts
Grid(n) == Arr([i \in 1..n |-> i - 1])

InputWaveforms ==
    UNION {{Waveform(Grid(n), Arr(v), 10, 1) : v \in [1..n -> Levels]} : n \in 1..MaxSamples}

\* the lines and resistive networks the session drives
DrivenDevices ==
    {T(1, 1), T(1, 2), T(2, 1), Shunt(R(2)), Connect(Series(R(1)), T(1, 1)), TwoPort}

\* the roundings of arange's quotient the model follows: the transform is
\* modelled for a padded trace of six samples, so a two-sample waveform is
\* driven on grids of either rounding and longer ones on exact grids
Roundings(self) == IF Len(self.time) = 2 THEN {0, 1} ELSE {0}

InitWaveform ==
    /\ fc = Freq(<< >>)
    /\ x = OnePort
    /\ net \in DrivenDevices
    /\ hist = Built("init", NoWave, 0)
    /\ out = NoOut
    /\ err = "none"
    /\ nops = 0
    /\ vi \in InputWaveforms
    /\ vo = NoWave
    /\ pad = NoPad

\* Vi = Waveform(time, voltage, tb, tr)
NewWaveform ==
    \E w \in InputWaveforms :
        /\ vi' = w
        /\ vo' = NoWave
        /\ pad' = NoPad
        /\ hist' = Built("init", NoWave, 0)
        /\ err' = "none"
        /\ UNCHANGED << fc, x, net, out, nops >>

\* another device to drive
NewLine ==
    \E d \in DrivenDevices :
        /\ net' = d
        /\ vo' = NoWave
        /\ pad' = NoPad
        /\ hist' = Built("init", NoWave, 0)
        /\ err' = "none"
        /\ UNCHANGED << fc, x, out, nops, vi >>

\* Vo = Vi >> net
Drive ==
    \E up \in Roundings(vi) :
        /\ vi' = [vi EXCEPT !.current = rshift(vi, net, up).current]
        /\ vo' = rshift(vi, net, up).returned
        /\ pad' = rshift(vi, net, up).pad
        /\ err' = rshift(vi, net, up).err
        /\ hist' = Built("rshift", vi, up)
        /\ UNCHANGED << fc, x, net, out, nops >>

NextWaveform == NewWaveform \/ NewLine \/ Drive

SpecWaveform == InitWaveform /\ [][NextWaveform]_vars

\* ------------------------------------------------------------------------
\* The lossy line W: the loss terms R and G that W.A starts from.  The
\* characteristic impedance, the propagation coefficient and the ABCD
\* entries computed from them are square roots and exponentials of these
\* terms and are not modelled.
\* ------------------------------------------------------------------------
W(length, Lm, Cm, R0, G0, Rs, Gd) ==
    [tag |-> "W", length |-> length, L |-> Lm, C |-> Cm,
     R0 |-> R0, G0 |-> G0, Rs |-> Rs, Gd |-> Gd]

\* a frequency vector given in Hz; rad = 2*pi*hz is held in units of 2*pi
FreqHz(hz) == [hz |-> Freq(hz).rad, rad |-> Freq(hz).rad]

\* numpy.sign of a real sample
sign(z) == IF z.re.n > 0 THEN CInt(1) ELSE IF z.re.n < 0 THEN CInt(-1) ELSE CZero

\* the non-negative integer whose square is n, n a perfect square
isqrt(n) == CHOOSE r \in 0..n : r * r = n

\* numpy.sqrt(h + 0.0j) of a real sample h that is plus or minus a perfect
\* square: the principal root, on the imaginary axis for h < 0
csqrt(h) ==
    IF h.re.n >= 0 THEN Cx(RInt(isqrt(h.re.n)), RZero)
    ELSE Cx(RZero, RInt(isqrt(-h.re.n)))

\* self.R0*numpy.sign(fc.rad), a float64 array
W_R_dc(self, f) == Arr([i \in 1..len(f) |-> CMul(CInt(self.R0), sign(f.rad[i]))])

\* numpy.sqrt(fc.hz+0.0j)*(1+1j)*self.Rs, a complex128 array
W_R_skin(self, f) ==
    Arr([i \in 1..len(f) |->
        CMul(CMul(csqrt(f.hz[i]), Cx(RInt(1), RInt(1))), CInt(self.Rs))])

\* self.G0*numpy.sign(fc.rad), a float64 array
W_G_dc(self, f) == Arr([i \in 1..len(f) |-> CMul(CInt(self.G0), sign(f.rad[i]))])

\* divide(fc.hz,(numpy.sqrt(1+(fc.hz)**2)+0.0j))*self.Gd, a complex128
\* array: a finite quotient times Gd, modelled for Gd = 0
W_G_dielectric(self, f) == zeros(len(f))

\* a += b for a float64 array a and a complex128 array b.  numpy casts the
\* sum to a's type: under the casting rule "unsafe" (numpy before 1.10) the
\* imaginary part is discarded, under "same_kind" the cast raises TypeError
iadd(a, b, casting) ==
    IF casting = "same_kind" THEN [raised |-> "TypeError", val |-> << >>]
    ELSE [raised |-> "none",
          val |-> Arr([i \in 1..Len(a) |-> Cx(CAdd(a[i], b[i]).re, RZero)])]

\* R = self.R0*numpy.sign(fc.rad); R += numpy.sqrt(fc.hz+0.0j)*(1+1j)*self.Rs
W_R(self, f, casting) == iadd(W_R_dc(self, f), W_R_skin(self, f), casting)

\* G = self.G0*numpy.sign(fc.rad); G += divide(...)*self.Gd
W_G(self, f, casting) == iadd(W_G_dc(self, f), W_G_dielectric(self, f), casting)

\* ------------------------------------------------------------------------
\* Lossy-line session: a line, a frequency vector with negative, zero and
\* positive samples (the axis of a transform has all three), and
\* evaluations of the loss terms
\* ------------------------------------------------------------------------
HzSamples == {-4, -1, 0, 1, 4}

RECURSIVE HzSeqs(_)
HzSeqs(n) ==
    IF n = 0 THEN {<< >>}
    ELSE LET shorter == HzSeqs(n - 1)
         IN  shorter \cup
             {Append(s, h) : s \in {t \in shorter : Len(t) = n - 1}, h \in HzSamples}

HzVectors == {FreqHz(s) : s \in {t \in HzSeqs(MaxLen) : Len(t) >= 1}}

LossyLines == {W(1, 1, 1, r0, g0, rs, 0) : r0 \in {0, 1, 2}, g0 \in {0, 1}, rs \in {0, 1}}

InitLossyLine ==
    /\ fc \in HzVectors
    /\ x = OnePort
    /\ net \in LossyLines
    /\ hist = Built("init", net, 0)
    /\ out = NoOut
    /\ err = "none"
    /\ nops = 0
    /\ vi = NoWave
    /\ vo = NoWave
    /\ pad = NoPad

\* W(length, L, C, R0, G0, Rs, Gd): another line
NewW ==
    \E w \in LossyLines :
        /\ net' = w
        /\ hist' = Built("init", w, 0)
        /\ out' = NoOut
        /\ err' = "none"
        /\ UNCHANGED << fc, x, nops, vi, vo, pad >>

\* the terms R and G of net.A(fc), or the TypeError of the first in-place sum
LossTerms ==
    \E casting \in {"unsafe", "same_kind"} :
        /\ out = NoOut
        /\ out' = IF W_R(net, fc, casting).raised # "none" THEN NoOut
                  ELSE [op |-> "W.A", val |-> [R |-> W_R(net, fc, casting).val,
                                               G |-> W_G(net, fc, casting).val]]
        /\ err' = W_R(net, fc, casting).raised
        /\ UNCHANGED << fc, x, net, hist, nops, vi, vo, pad >>

NextLossyLine == NewW \/ LossTerms \/ Discard

SpecLossyLine == InitLossyLine /\ [][NextLossyLine]_vars

\* ------------------------------------------------------------------------
\* The ferrite interpolant Lb
\* ------------------------------------------------------------------------
\* numpy.argsort(x, kind="mergesort"): the indices of x in increasing order
\* of value, equal values in their order in x
RECURSIVE argsort(_, _)
argsort(xs, n) ==
    IF n = 0 THEN << >>
    ELSE SelectSeq(argsort(xs, n - 1), LAMBDA j : xs[j] <= xs[n]) \o << n >>
             \o SelectSeq(argsort(xs, n - 1), LAMBDA j : xs[j] > xs[n])

\* x[ind]
take(xs, ind) == Arr([i \in 1..Len(ind) |-> xs[ind[i]]])

\* scipy.interpolate.interp1d(x, y): the linear interpolant through the
\* points, or the ValueError it raises for arrays of different lengths or
\* of fewer than minval entries.  The scipy releases of the code's time
\* need two entries (minval = 2) and keep x as given; later ones need one
\* (minval = 1) and sort x, with y alongside.  Neither compares
\* neighbouring entries of x.
interp1d(xs, ys, minval) ==
    IF Len(xs) # Len(ys) \/ Len(xs) < minval THEN [raised |-> "ValueError"]
    ELSE IF minval = 1
    THEN [raised |-> "none", x |-> take(xs, argsort(xs, Len(xs))),
          y |-> take(ys, argsort(xs, Len(xs))), minval |-> minval]
    ELSE [raised |-> "none", x |-> xs, y |-> ys, minval |-> minval]

\* the outcome of a call of Lb.__init__: the exception raised or "none", the
\* interpolation objects built, and the object constructed
LbOutcome(raised, built, self) == [err |-> raised, built |-> built, self |-> self]

\* self.R = interp1d(LogF, R); self.X = interp1d(LogF, X)
Lb_interpolants(Ri, Xi) ==
    IF Ri.raised # "none" THEN LbOutcome(Ri.raised, << >>, NoNet)
    ELSE IF Xi.raised # "none" THEN LbOutcome(Xi.raised, << Ri >>, NoNet)
    ELSE LbOutcome("none", << Ri, Xi >>, [tag |-> "Lb", R |-> Ri, X |-> Xi])

\* faulty variant: the check raises only when both lengths differ
Lb_init_and(LogF, Rv, Xv, minval) ==
    IF (Len(LogF) # Len(Rv)) /\ (Len(LogF) # Len(Xv))
    THEN LbOutcome("RuntimeError", << >>, NoNet)
    ELSE Lb_interpolants(interp1d(LogF, Rv, minval), interp1d(LogF, Xv, minval))

\* Lb.__init__(LogF, R, X), on lists of numbers
Lb_init(LogF, Rv, Xv, minval) ==
    IF (Len(LogF) # Len(Rv)) \/ (Len(LogF) # Len(Xv))
    THEN LbOutcome("RuntimeError", << >>, NoNet)
    ELSE Lb_interpolants(interp1d(LogF, Rv, minval), interp1d(LogF, Xv, minval))

\* ------------------------------------------------------------------------
\* Ferrite session: calls of Lb(F, R, X) on lists of up to MaxPoints numbers
\* ------------------------------------------------------------------------
RECURSIVE ListsOver(_, _)
ListsOver(S, n) ==
    IF n = 0 THEN {<< >>}
    ELSE LET shorter == ListsOver(S, n - 1)
         IN  shorter \cup
             {Append(s, v) : s \in {t \in shorter : Len(t) = n - 1}, v \in S}

FrequencyLists == ListsOver({0, 1, 2}, MaxPoints)

OhmLists == ListsOver({1, 2}, MaxPoints)

InitFerrite ==
    /\ fc = Freq(<< >>)
    /\ x = OnePort
    /\ net = NoNet
    /\ hist = Built("init", x, 0)
    /\ out = NoOut
    /\ err = "none"
    /\ nops = 0
    /\ vi = NoWave
    /\ vo = NoWave
    /\ pad = NoPad

\* x = Lb(F, R, X), once in a session: when the constructor raises, x keeps
\* the object it had; out holds the interpolation objects the call built
NewLb ==
    \E LogF \in FrequencyLists, Rv \in OhmLists, Xv \in OhmLists, minval \in {1, 2} :
        /\ hist.op = "init"
        /\ x' = IF Lb_init(LogF, Rv, Xv, minval).err = "none"
                THEN Lb_init(LogF, Rv, Xv, minval).self ELSE x
        /\ out' = [op |-> "Lb", val |-> Lb_init(LogF, Rv, Xv, minval).built]
        /\ err' = Lb_init(LogF, Rv, Xv, minval).err
        /\ hist' = Built("Lb", [LogF |-> LogF, R |-> Rv, X |-> Xv, was |-> x], minval)
        /\ UNCHANGED << fc, net, nops, vi, vo, pad >>

\* x = OnePort(): the session starts over
ResetFerrite ==
    /\ hist.op = "Lb"
    /\ x' = OnePort
    /\ hist' = Built("init", OnePort, 0)
    /\ out' = NoOut
    /\ err' = "none"
    /\ UNCHANGED << fc, net, nops, vi, vo, pad >>

NextFerrite == NewLb \/ ResetFerrite

SpecFerrite == InitFerrite /\ [][NextFerrite]_vars

\* ------------------------------------------------------------------------
\* Waveform generators (waveform.py): Gauss and Clock.  Times are counted
\* in sample steps tb/resolution, so tb is resolution steps long.
\* ------------------------------------------------------------------------
\* the argument from which binary64 erf is exactly 1.0
ErfSaturation == 6

\* a voltage a + b*erf(arg): scipy.special.erf is exact at 0 (erf(0) = 0)
\* and saturated (+1 or -1) from ErfSaturation on; in between it is kept
\* as the term b*erf(arg)
erf(a, b, arg) ==
    IF arg.n = 0 THEN [a |-> a, b |-> RZero, arg |-> RZero]
    ELSE IF RAbsGe(arg, RInt(ErfSaturation))
    THEN [a |-> RAdd(a, IF arg.n > 0 THEN b ELSE RNeg(b)), b |-> RZero, arg |-> RZero]
    ELSE [a |-> a, b |-> b, arg |-> arg]

\* _gauss: tx = (tr/0.672)*0.281*2
gauss_tx(tr) == RMul(RMul(RDiv(RInt(tr), RMk(672, 1000, 0)), RMk(281, 1000, 0)), RInt(2))

\* faulty variant: the edge is centred tr after td
gauss_arg_tr(tx, td, tn) ==
    RDiv(RSub(RSub(RInt(tn), RMul(RDiv(tx, RMk(281, 1000, 0)), RMk(336, 1000, 0))),
              RInt(td)), tx)

\* _gauss: (tn - (tx/0.281)*0.672 - td)/tx
gauss_arg(tx, td, tn) ==
    RDiv(RSub(RSub(RInt(tn), RMul(RDiv(tx, RMk(281, 1000, 0)), RMk(672, 1000, 0))),
              RInt(td)), tx)

\* _gauss(v1, v2, td, tr, tn) = 0.5*(v2-v1)*(1+vo), added to v1 by the caller
gauss(v1, v2, td, tr, tn) ==
    erf(RMul(RMk(1, 2, 0), RInt(v2 - v1)), RMul(RMk(1, 2, 0), RInt(v2 - v1)),
        gauss_arg(gauss_tx(tr), td, tn))

\* voltage[i] = v1 + _gauss(v1, v2, td, tr, tn)
GaussSample(v1, edge) == [edge EXCEPT !.a = RAdd(RInt(v1), edge.a)]

\* the loop variables of Gauss.__init__
LoopVars(state0, td, v1, v2) == [state0 |-> state0, td |-> td, v1 |-> v1, v2 |-> v2]

\* random.gauss(tj*6, tj) = tj*6 + z*tj for the deviate z drawn
random_gauss(tj, z) == tj * 6 + z * tj

\* faulty variant: the levels are not exchanged on a falling edge
GaussFall_keeps(lv, state, tn, jitter) ==
    IF lv.state0 > state THEN LoopVars(state, tn + jitter, lv.v1, lv.v2) ELSE lv

\* if state0 < state: state0 = state; td = tn + random.gauss(...); v1, v2 = v2, v1
GaussRise(lv, state, tn, jitter) ==
    IF lv.state0 < state THEN LoopVars(state, tn + jitter, lv.v2, lv.v1) ELSE lv

\* if state0 > state: state0 = state; td = tn + random.gauss(...); v1, v2 = v2, v1
GaussFall(lv, state, tn, jitter) ==
    IF lv.state0 > state THEN LoopVars(state, tn + jitter, lv.v2, lv.v1) ELSE lv

\* one pass of the loop body for sample i: the loop variables after it and
\* the sample it stores
GaussPass(lv, i, tn, state, tr) ==
    [i |-> i, tn |-> tn, state |-> state, state0 |-> lv.state0, td |-> lv.td,
     v1 |-> lv.v1, v2 |-> lv.v2,
     voltage |-> GaussSample(lv.v1, gauss(lv.v1, lv.v2, lv.td, tr, tn))]

GaussBody(lv, i, state, tr, jitter) ==
    GaussPass(GaussFall(GaussRise(lv, state, i, jitter), state, i, jitter), i, i, state, tr)

\* for i in range(0, len(time)): the passes made, in order; i counts from 0
\* and states[int(i/resolution)] raises IndexError past the last state,
\* which ends the loop with the passes made so far
RECURSIVE GaussLoop(_, _, _, _, _, _)
\* the loop after the pass body of sample i
GaussNext(passes, body, i, n, g, draws) ==
    GaussLoop(Append(passes, body), LoopVars(body.state0, body.td, body.v1, body.v2),
              i + 1, n, g, draws)

GaussLoop(passes, lv, i, n, g, draws) ==
    IF i >= n \/ (i \div g.resolution) + 1 > Len(g.states) THEN passes
    ELSE GaussNext(passes,
                   GaussBody(lv, i, g.states[(i \div g.resolution) + 1], g.tr,
                             random_gauss(g.tj, draws[(i \div g.resolution) + 1])),
                   i, n, g, draws)

\* the arguments of Gauss.__init__ (v1, v2, tr, tj after units.float)
GaussArgs(states, v1, v2, tr, tj, resolution) ==
    [states |-> states, v1 |-> v1, v2 |-> v2, tb |-> resolution, tr |-> tr, tj |-> tj,
     resolution |-> resolution]

\* state0 = states[0]; td = -length; if state0 == 0: v1, v2 = v2, v1
GaussStart(g) ==
    IF g.states[1] = 0 THEN LoopVars(0, -(Len(g.states) * g.tb), g.v2, g.v1)
    ELSE LoopVars(g.states[1], -(Len(g.states) * g.tb), g.v1, g.v2)

\* what a generator call raises, the passes of its loop, and the waveform
GeneratorOutcome(raised, passes, wave) == [err |-> raised, passes |-> passes, wave |-> wave]

\* time = time - tj*6; Waveform.__init__(self, time, voltage, tb, tr)
GaussReturn(g, n, passes) ==
    IF Len(passes) < n THEN GeneratorOutcome("IndexError", passes, NoWave)
    ELSE GeneratorOutcome("none", passes,
             Waveform(Arr([i \in 1..n |-> (i - 1) - g.tj * 6]),
                      Arr([i \in 1..n |-> passes[i].voltage]), g.tb, g.tr))

\* Gauss.__init__: len(time) is the length of numpy.arange(0.0, length,
\* tb/resolution), len(states)*resolution or, when the binary64 quotient
\* rounds above it, one more (up = 1)
Gauss(g, draws, up) ==
    IF Len(g.states) = 0 THEN GeneratorOutcome("IndexError", << >>, NoWave)
    ELSE GaussReturn(g, Len(g.states) * g.resolution + up,
                     GaussLoop(<< >>, GaussStart(g), 0, Len(g.states) * g.resolution + up,
                               g, draws))

\* faulty variant: the bits with even index are set
ClockStates_even(periods) == Arr([i \in 1..(periods * 2) |-> IF (i - 1) % 2 = 0 THEN 1 ELSE 0])

\* Clock.__init__: states = numpy.zeros(periods*2); states[i] = 1 for odd i
ClockStates(periods) == Arr([i \in 1..(periods * 2) |-> IF (i - 1) % 2 = 1 THEN 1 ELSE 0])

\* Waveform(time, voltage, tb, tr) as a call: what it raises and the object
NewOutcome(time, voltage, tb, tr) ==
    IF Waveform(time, voltage, tb, tr) = NameError
    THEN GeneratorOutcome("NameError", << >>, NoWave)
    ELSE GeneratorOutcome("none", << >>, Waveform(time, voltage, tb, tr))

\* ------------------------------------------------------------------------
\* Generator session: waveforms of up to MaxBits bits of Resolution samples
\* ------------------------------------------------------------------------
StateLists == ListsOver({0, 1}, MaxBits)

\* rise times, in sample steps: one step, and half a bit or more
RiseTimes == {1, (Resolution + 1) \div 2}

\* the deviates random.gauss draws, one per bit: the same at every edge, or
\* one that changes from edge to edge
Deviates(states, tj) ==
    IF tj = 0 THEN {[i \in 1..Len(states) |-> 0]}
    ELSE {[i \in 1..Len(states) |-> z] : z \in {-1, 0, 1}}
             \cup {[i \in 1..Len(states) |-> (i % 3) - 1]}

InitGenerator ==
    /\ fc = Freq(<< >>)
    /\ x = OnePort
    /\ net = NoNet
    /\ hist = Built("init", NoWave, 0)
    /\ out = NoOut
    /\ err = "none"
    /\ nops = 0
    /\ vi = NoWave
    /\ vo = NoWave
    /\ pad = NoPad

\* the assignment Vi = <call>: Vi is bound only when the call returns
Generated(op, args, up, res) ==
    /\ vi' = IF res.err = "none" THEN res.wave ELSE vi
    /\ out' = [op |-> op, val |-> res.passes]
    /\ err' = res.err
    /\ hist' = Built(op, args, up)
    /\ UNCHANGED << fc, x, net, nops, vo, pad >>

\* Vi = Waveform(time, voltage, tb, tr)
NewWave ==
    \E m \in 0..MaxBits, n \in 0..MaxBits :
        /\ hist.op = "init"
        /\ Generated("Waveform", [time |-> Grid(m), voltage |-> zeros(n)], 0,
                     NewOutcome(Grid(m), zeros(n), Resolution, 1))

\* Vi = Gauss(states, v1, v2, tb, tr, tj, resolution)
NewGauss ==
    \E states \in StateLists, tr \in RiseTimes, tj \in {0, 1}, up \in {0, 1},
       lo \in {0, 1} :
        \E draws \in Deviates(states, tj) :
            /\ hist.op = "init"
            /\ Generated("Gauss", GaussArgs(states, lo, lo + 2, tr, tj, Resolution), up,
                         Gauss(GaussArgs(states, lo, lo + 2, tr, tj, Resolution),
                               Arr(draws), up))

\* Vi = Clock(periods, v1, v2, tb, tr, tj, resolution)
NewClock ==
    \E periods \in 0..MaxPeriods, tr \in RiseTimes, tj \in {0, 1}, up \in {0, 1} :
        \E draws \in Deviates(ClockStates(periods), tj) :
            /\ hist.op = "init"
            /\ Generated("Clock",
                         [periods |-> periods,
                          gauss |-> GaussArgs(ClockStates(periods), 0, 2, tr, tj, Resolution)],
                         up,
                         Gauss(GaussArgs(ClockStates(periods), 0, 2, tr, tj, Resolution),
                               Arr(draws), up))

\* del Vi: the session starts over
DelWave ==
    /\ hist.op # "init"
    /\ vi' = NoWave
    /\ out' = NoOut
    /\ err' = "none"
    /\ hist' = Built("init", NoWave, 0)
    /\ UNCHANGED << fc, x, net, nops, vo, pad >>

NextGenerator == NewWave \/ NewGauss \/ NewClock \/ DelWave

SpecGenerator == InitGenerator /\ [][NextGenerator]_vars

\* ------------------------------------------------------------------------
\* Lb.Z: the interpolants called on fc.hz
\* ------------------------------------------------------------------------
\* a < b for reals
RLess(a, b) == RSub(a, b).n < 0

\* interp1d._check_bounds: the value h is below self.x[0] or above self.x[-1]
out_of_bounds(self, h) ==
    RLess(h, RInt(self.x[1])) \/ RLess(RInt(self.x[Len(self.x)]), h)

\* faulty variant: bounds_error = False, nothing raises
check_bounds_off(self, xnew) == FALSE

\* interp1d._check_bounds with bounds_error on (the default): a value of
\* x_new out of bounds raises ValueError
check_bounds(self, xnew) == \E i \in 1..Len(xnew) : out_of_bounds(self, xnew[i].re)

\* the line through (xlo, ylo) and (xhi, yhi) at h, as binary64 computes
\* slope = (y_hi-y_lo)/(x_hi-x_lo); slope*(x_new-x_lo) + y_lo: a zero
\* x_hi-x_lo makes the slope infinite or NaN and the value NaN at h = x_lo
segment(xlo, xhi, ylo, yhi, h) ==
    IF xhi = xlo
    THEN IF RSub(h, RInt(xlo)).n = 0 \/ yhi = ylo THEN NaN ELSE Inf
    ELSE Cx(RAdd(RMul(RDiv(RInt(yhi - ylo), RInt(xhi - xlo)), RSub(h, RInt(xlo))),
                 RInt(ylo)), RZero)

\* numpy.searchsorted(self.x, h).clip(1, len(self.x)-1): for increasing x
\* the number of entries below h, and 1 for any two entries
searchsorted_clip(self, h) ==
    IF Cardinality({j \in 1..Len(self.x) : RLess(RInt(self.x[j]), h)}) < 1 THEN 1
    ELSE IF Cardinality({j \in 1..Len(self.x) : RLess(RInt(self.x[j]), h)}) > Len(self.x) - 1
    THEN Len(self.x) - 1
    ELSE Cardinality({j \in 1..Len(self.x) : RLess(RInt(self.x[j]), h)})

\* interp1d._call_linear at one value, hi counted from 0
call_linear(self, hi, h) ==
    segment(self.x[hi], self.x[hi + 1], self.y[hi], self.y[hi + 1], h)

\* numpy.interp at one value inside the range of the sorted x: j is the
\* last index with x[j] <= h
call_linear_np(self, j, h) ==
    IF Len(self.x) = 1 \/ j = Len(self.x) THEN CInt(self.y[j])
    ELSE segment(self.x[j], self.x[j + 1], self.y[j], self.y[j + 1], h)

\* interp1d.__call__ past the bounds check, at one value
interp1d_at(self, h) ==
    IF self.minval = 1
    THEN call_linear_np(self, Cardinality({j \in 1..Len(self.x) : ~RLess(h, RInt(self.x[j]))}), h)
    ELSE call_linear(self, searchsorted_clip(self, h), h)

\* interp1d.__call__(x_new): ValueError, or the array of values with
\* fill_value (NaN) at the values out of bounds
interp1d_call(self, xnew) ==
    IF check_bounds(self, xnew) THEN [raised |-> "ValueError", val |-> << >>]
    ELSE [raised |-> "none",
          val |-> Arr([i \in 1..Len(xnew) |->
                          IF out_of_bounds(self, xnew[i].re) THEN NaN
                          ELSE interp1d_at(self, xnew[i].re)])]

\* return self.R(fc.hz) + self.X(fc.hz)*1j
Lb_Z_sum(Rc, Xc) ==
    IF Rc.raised # "none" THEN Rc
    ELSE IF Xc.raised # "none" THEN Xc
    ELSE [raised |-> "none", val |-> VAdd(Rc.val, VScale(CImag(1), Xc.val))]

\* Lb.Z
Lb_Z(self, f) == Lb_Z_sum(interp1d_call(self.R, f.hz), interp1d_call(self.X, f.hz))

\* ------------------------------------------------------------------------
\* Ferrite query session: Lb objects queried on vectors of up to MaxLen
\* frequencies
\* ------------------------------------------------------------------------
\* impedance curves << F, R, X >>: increasing breakpoints (the first is
\* F = [0, 10e9], R = [1, 1], X = [1, 1] in units of 5e9 Hz), breakpoints
\* out of order, a repeated breakpoint, a single breakpoint
FerriteCurves ==
    {<< << 0, 2 >>, << 1, 1 >>, << 1, 1 >> >>,
     << << 0, 2 >>, << 1, 3 >>, << 2, 0 >> >>,
     << << 1, 2 >>, << 1, 2 >>, << 2, 1 >> >>,
     << << 0, 1, 2 >>, << 1, 3, 1 >>, << 0, 1, 3 >> >>,
     << << 2, 1 >>, << 1, 2 >>, << 1, 2 >> >>,
     << << 1, 1 >>, << 1, 2 >>, << 1, 2 >> >>,
     << << 1 >>, << 2 >>, << 3 >> >>}

\* the Lb objects Lb(F, R, X) constructs from the curves
Ferrites ==
    {Lb_init(c[1], c[2], c[3], minval).self : c \in FerriteCurves, minval \in {1, 2}}
        \ {NoNet}

QueryVectors == {FreqHz(s) : s \in ListsOver({-1, 0, 1, 2, 3}, MaxLen)}

InitQuery ==
    /\ fc \in QueryVectors
    /\ x \in Ferrites
    /\ net = NoNet
    /\ hist = Built("init", x, 0)
    /\ out = NoOut
    /\ err = "none"
    /\ nops = 0
    /\ vi = NoWave
    /\ vo = NoWave
    /\ pad = NoPad

\* x = Lb(F, R, X): another ferrite
NewFerrite ==
    \E d \in Ferrites :
        /\ x' = d
        /\ hist' = Built("init", d, 0)
        /\ out' = NoOut
        /\ err' = "none"
        /\ UNCHANGED << fc, net, nops, vi, vo, pad >>

\* fc = freq.Freq(hz): another frequency vector
NewFrequency ==
    \E f \in QueryVectors :
        /\ fc' = f
        /\ out' = NoOut
        /\ err' = "none"
        /\ hist' = Built("init", x, 0)
        /\ UNCHANGED << x, net, nops, vi, vo, pad >>

\* x.Z(fc)
QueryLbZ ==
    /\ out' = IF Lb_Z(x, fc).raised = "none" THEN [op |-> "Z", val |-> Lb_Z(x, fc).val]
              ELSE NoOut
    /\ err' = Lb_Z(x, fc).raised
    /\ hist' = Built("Z", x, 0)
    /\ UNCHANGED << fc, x, net, nops, vi, vo, pad >>

NextQuery == NewFerrite \/ NewFrequency \/ QueryLbZ

SpecQuery == InitQuery /\ [][NextQuery]_vars

\* ------------------------------------------------------------------------
\* Queries as calls: what a query returns or raises, and the node and the
\* frequency vector as the call leaves them.  No query method assigns to
\* self or to fc, and its in-place statements (z[...] = 1e18 in divide,
\* a[:,:,i] = ... in Connect.A and Zout) write to arrays the call made.
\* ------------------------------------------------------------------------
Called(val, self, f) == [val |-> val, err |-> "none", self |-> self, fc |-> f]

\* a = numpy.linalg.inv(...) raises before anything is returned
CalledInverting(a, val, self, f) ==
    IF a = LinAlgError
    THEN [val |-> << >>, err |-> "LinAlgError", self |-> self, fc |-> f]
    ELSE Called(val, self, f)

\* faulty variant: the product is formed in place, fc.rad *= 2
Z_call_in_place(self, f) == Called(Z(self, f), self, [f EXCEPT !.rad = VScale(CInt(2), f.rad)])

Z_call(self, f) == Called(Z(self, f), self, f)

A_call(self, f) == Called(A(self, f), self, f)

Zin_call(self, f) == Called(Zin(self, f), self, f)

Zout_call(self, f) == CalledInverting(Inverted(Inverses(self, f), len(f)), Zout(self, f), self, f)

Gf_call(self, f) == Called(Gf(self, f), self, f)

Gr_call(self, f) == CalledInverting(Inverted(Inverses(self, f), len(f)), Gr(self, f), self, f)

\* ------------------------------------------------------------------------
\* Repeated-query session: one one-port, one two-port and one frequency
\* vector, queried any number of times in any order; hist keeps the objects
\* as constructed and what each query returned the first time
\* ------------------------------------------------------------------------
QueryNames == {"Z", "A", "Zin", "Zout", "Gf", "Gr"}

\* a one-port and a two-port over it
QueriedNodes ==
    {<< R(2), Shunt(R(2)) >>,
     << Parallel(R(2), C(1)), Series(Parallel(R(2), C(1))) >>,
     << InLine(R(1), L(1)), Connect(Series(InLine(R(1), L(1))), Shunt(C(1))) >>,
     << OnePort, Connect(Shunt(OnePort), Series(R(1))) >>,
     << L(1), Connect(TwoPort, Shunt(L(1))) >>}

NotCalled == [val |-> << >>, err |-> "not called"]

InitRepeat ==
    /\ fc \in FreqVectors
    /\ \E p \in QueriedNodes : x = p[1] /\ net = p[2]
    /\ hist = [x |-> x, net |-> net, fc |-> fc, first |-> [q \in QueryNames |-> NotCalled]]
    /\ out = NoOut
    /\ err = "none"
    /\ nops = 0
    /\ vi = NoWave
    /\ vo = NoWave
    /\ pad = NoPad

\* the call returns or raises; what it returned the first time is kept
Returned(op, res) ==
    /\ out' = [op |-> op, val |-> res.val]
    /\ err' = res.err
    /\ fc' = res.fc
    /\ hist' = IF hist.first[op] = NotCalled
               THEN [hist EXCEPT !.first[op] = [val |-> res.val, err |-> res.err]]
               ELSE hist
    /\ UNCHANGED << nops, vi, vo, pad >>

\* x.Z(fc)
RepeatZ == x' = Z_call(x, fc).self /\ net' = net /\ Returned("Z", Z_call(x, fc))

\* net.A(fc)
RepeatA == net' = A_call(net, fc).self /\ x' = x /\ Returned("A", A_call(net, fc))

\* net.Zin(fc)
RepeatZin == net' = Zin_call(net, fc).self /\ x' = x /\ Returned("Zin", Zin_call(net, fc))

\* net.Zout(fc)
RepeatZout == net' = Zout_call(net, fc).self /\ x' = x /\ Returned("Zout", Zout_call(net, fc))

\* net.Gf(fc)
RepeatGf == net' = Gf_call(net, fc).self /\ x' = x /\ Returned("Gf", Gf_call(net, fc))

\* net.Gr(fc)
RepeatGr == net' = Gr_call(net, fc).self /\ x' = x /\ Returned("Gr", Gr_call(net, fc))

NextRepeat == RepeatZ \/ RepeatA \/ RepeatZin \/ RepeatZout \/ RepeatGf \/ RepeatGr

SpecRepeat == InitRepeat /\ [][NextRepeat]_vars

\* ------------------------------------------------------------------------
\* Claims about the one-port algebra (SpecOnePort)
\* ------------------------------------------------------------------------
ZQueried == out.op = "Z"

\* C1: the impedance returned for InLine(a,b) has one sample per frequency
\* and is, at every sample, the sum of a's and b's impedances.
C1_InLineIsSum ==
    (ZQueried /\ x.tag = "InLine") =>
        /\ Len(out.val) = len(fc)
        /\ \A i \in 1..len(fc) :
               out.val[i] = CAdd(Z(x.a, fc)[i], Z(x.b, fc)[i])

C1_Witness ==
    /\ ZQueried
    /\ x.tag = "InLine"
    /\ len(fc) = 2
    /\ \E i \in 1..len(fc) : ~IsZero(Z(x.a, fc)[i]) /\ ~IsZero(Z(x.b, fc)[i])

\* C2: at every sample where a's impedance is not zero, the impedance of
\* Parallel(a,a) is half of a's.
C2_ParallelSelfIsHalf ==
    (ZQueried /\ x.tag = "Parallel" /\ x.a = x.b) =>
        \A i \in 1..len(fc) :
            ~IsZero(Z(x.a, fc)[i]) => out.val[i] = CDiv(Z(x.a, fc)[i], CInt(2))

C2_Witness ==
    /\ ZQueried
    /\ x.tag = "Parallel"
    /\ x.a = x.b
    /\ x.a.tag = "InLine"
    /\ hist.op = "div"
    /\ \E i \in 1..len(fc) :
           Z(x.a, fc)[i].re.n # 0 /\ Z(x.a, fc)[i].im.n # 0

\* C6: a capacitor's impedance is the finite substitute 1e18 at every sample
\* where omega*C is zero, and 1/(j*omega*C) = -j/(omega*C) elsewhere.
C6_CapacitorZ ==
    (ZQueried /\ x.tag = "C") =>
        \A i \in 1..len(fc) :
            LET wC == fc.rad[i].re.n * x.value
            IN  IF wC = 0 THEN out.val[i] = BIG
                ELSE out.val[i] = Cx(RZero, RMk(-1, wC, 0))

C6_Witness ==
    /\ ZQueried
    /\ x.tag = "C"
    /\ x.value # 0
    /\ \E i \in 1..len(fc) : fc.rad[i].re.n = 0 /\ out.val[i] = BIG
    /\ \E i \in 1..len(fc) : fc.rad[i].re.n # 0 /\ IsFinite(out.val[i])

\* a value of the order of 1e-18 or below, or zero
Negligible(z) == IsFinite(z) /\ (z.re.n = 0 \/ z.re.e < 0) /\ (z.im.n = 0 \/ z.im.e < 0)

\* C7: the impedance of Parallel(a,b) is finite at every sample, and where
\* a's or b's impedance is exactly zero it is of the order of 1/1e18.
C7_ParallelFinite ==
    (ZQueried /\ x.tag = "Parallel") =>
        \A i \in 1..len(fc) :
            /\ IsFinite(out.val[i])
            /\ (IsZero(Z(x.a, fc)[i]) \/ IsZero(Z(x.b, fc)[i])) =>
                   (Negligible(out.val[i]) /\ ~IsZero(out.val[i]))

C7_Witness ==
    /\ ZQueried
    /\ x.tag = "Parallel"
    /\ \E i \in 1..len(fc) : IsZero(Z(x.a, fc)[i]) /\ ~IsZero(Z(x.b, fc)[i])
    /\ \E i \in 1..len(fc) : IsZero(Z(x.a, fc)[i]) /\ IsZero(Z(x.b, fc)[i])

\* C8: d // N is N applications of Parallel against d (d itself for N = 0):
\* it raises nothing and its impedance is d's divided by N+1 wherever d's
\* impedance is not zero.
C8_FloorDivIsRepeatedParallel ==
    hist.op = "floordiv" =>
        /\ err = "none"
        /\ ZQueried =>
               \A i \in 1..len(fc) :
                   ~IsZero(Z(hist.self, fc)[i]) =>
                       out.val[i] = CDiv(Z(hist.self, fc)[i], CInt(hist.n + 1))

\* C9: d ** N is N applications of InLine starting from d, so its impedance
\* is (N+1) times d's at every sample.
C9_PowIsRepeatedInLine ==
    (ZQueried /\ hist.op = "pow") =>
        /\ Len(out.val) = len(fc)
        /\ \A i \in 1..len(fc) :
               out.val[i] = CMul(CInt(hist.n + 1), Z(hist.self, fc)[i])

C9_Witness ==
    /\ ZQueried
    /\ hist.op = "pow"
    /\ hist.n = 2
    /\ \E i \in 1..len(fc) : ~IsZero(Z(hist.self, fc)[i])

\* ------------------------------------------------------------------------
\* Claims about the two-port algebra (SpecTwoPort)
\* ------------------------------------------------------------------------
AQueried == out.op = "A"

\* the per-sample matrix product of the operands' arrays, left to right
ProductOfOperands(t, f) ==
    LET Aa == A(t.a, f)
        Ab == A(t.b, f)
    IN  << << Arr([i \in 1..len(f) |->
                   CAdd(CMul(Aa[1][1][i], Ab[1][1][i]), CMul(Aa[1][2][i], Ab[2][1][i]))]),
              Arr([i \in 1..len(f) |->
                   CAdd(CMul(Aa[1][1][i], Ab[1][2][i]), CMul(Aa[1][2][i], Ab[2][2][i]))]) >>,
           << Arr([i \in 1..len(f) |->
                   CAdd(CMul(Aa[2][1][i], Ab[1][1][i]), CMul(Aa[2][2][i], Ab[2][1][i]))]),
              Arr([i \in 1..len(f) |->
                   CAdd(CMul(Aa[2][1][i], Ab[1][2][i]), CMul(Aa[2][2][i], Ab[2][2][i]))]) >> >>

\* Connect(Connect(a,b),c) regrouped as Connect(a,Connect(b,c))
Regrouped(t) == Connect(t.a.a, Connect(t.a.b, t.b))

Ord(r) == IF r.n = 0 THEN -99 ELSE r.e

Max(a, b) == IF a >= b THEN a ELSE b

COrd(z) == Max(Ord(z.re), Ord(z.im))

\* the order of magnitude of the largest entry of the sample-i matrix
MOrd(M, i) ==
    Max(Max(COrd(M[1][1][i]), COrd(M[1][2][i])), Max(COrd(M[2][1][i]), COrd(M[2][2][i])))

C4_VoltageDivider ==
    (/\ out.op = "Gf"
     /\ net.tag = "Connect"
     /\ net.a.tag = "Series" /\ net.a.Z.tag = "R"
     /\ net.b.tag = "Shunt") =>
        \A i \in 1..len(fc) :
            LET Zs == Z(net.b.Z, fc)[i]
                Rs == Z(net.a.Z, fc)[i]
            IN  ~IsZero(Zs) => out.val[i] = CDiv(Zs, CAdd(Zs, Rs))

C4_Witness ==
    /\ out.op = "Gf"
    /\ net.tag = "Connect"
    /\ net.a.tag = "Series" /\ net.a.Z.tag = "R"
    /\ net.b.tag = "Shunt"
    /\ \E i \in 1..len(fc) :
           Z(net.b.Z, fc)[i].re.n # 0 /\ Z(net.b.Z, fc)[i].im.n # 0

\* the quotient num/den with a zero denominator replaced by 1e18
Substituted(num, den) == IF IsZero(den) THEN BIG ELSE CDiv(num, den)

\* C5: Zin = A00/A10, Gf = 1/A00, Zout = -a00/a10 and Gr = -1/a00 (a the
\* inverse of A) at every sample, and a quotient whose denominator is exactly
\* zero is the finite 1e18, never an infinity or a NaN.
C5_SingularQuotientsSubstituted ==
    /\ out.op = "Zin" =>
           \A i \in 1..len(fc) :
               /\ IsFinite(out.val[i])
               /\ out.val[i] = Substituted(A(net, fc)[1][1][i], A(net, fc)[2][1][i])
    /\ out.op = "Gf" =>
           \A i \in 1..len(fc) :
               /\ IsFinite(out.val[i])
               /\ out.val[i] = Substituted(COne, A(net, fc)[1][1][i])
    /\ out.op = "Zout" =>
           \A i \in 1..len(fc) :
               /\ IsFinite(out.val[i])
               /\ out.val[i] = CNeg(Substituted(Inverses(net, fc)[i][1][1],
                                                Inverses(net, fc)[i][2][1]))
    /\ out.op = "Gr" =>
           \A i \in 1..len(fc) :
               /\ IsFinite(out.val[i])
               /\ out.val[i] = CNeg(Substituted(COne, Inverses(net, fc)[i][1][1]))

\* the k-fold product M.M...M of a 2x2 matrix, k >= 1
RECURSIVE MatPower(_, _)
MatPower(M, k) == IF k <= 1 THEN M ELSE dot(MatPower(M, k - 1), M)

\* C10 as stated: for N >= 1 the array of x ** N is, at every sample, the
\* N-fold product of x's matrix with itself.
C10_PowIsNFoldProduct ==
    (AQueried /\ hist.op = "pow" /\ hist.n >= 1) =>
        \A i \in 1..len(fc) :
            Slice(out.val, i) = MatPower(Slice(A(hist.self, fc), i), hist.n)

\* C10 amended: x ** N applies Connect N times starting from x, so for
\* N >= 0 its array is, at every sample, the (N+1)-fold product of x's matrix
\* with itself.
C10_PowIsNPlusOneFoldProduct ==
    (AQueried /\ hist.op = "pow") =>
        \A i \in 1..len(fc) :
            Slice(out.val, i) = MatPower(Slice(A(hist.self, fc), i), hist.n + 1)

C10_Witness ==
    /\ AQueried
    /\ hist.op = "pow"
    /\ hist.n = 2
    /\ \E i \in 1..len(fc) :
           Slice(out.val, i) # MatPower(Slice(A(hist.self, fc), i), 2)

\* C11: the input impedance of Shunt(a) cascaded with Shunt(b) is, at every
\* sample, the impedance of Parallel(a,b), the samples where divide()
\* substitutes 1e18 included.
C11_ShuntPairIsParallel ==
    (/\ out.op = "Zin"
     /\ net.tag = "Connect"
     /\ net.a.tag = "Shunt"
     /\ net.b.tag = "Shunt") =>
        /\ Len(out.val) = len(fc)
        /\ \A i \in 1..len(fc) :
               out.val[i] = Z(Parallel(net.a.Z, net.b.Z), fc)[i]

\* a pair with a zero impedance at one sample (1/Z substituted) and a
\* complex impedance at another
C11_Witness ==
    /\ out.op = "Zin"
    /\ net.tag = "Connect"
    /\ net.a.tag = "Shunt"
    /\ net.b.tag = "Shunt"
    /\ net.a.Z # net.b.Z
    /\ \E i \in 1..len(fc) :
           IsZero(Z(net.a.Z, fc)[i]) /\ ~IsZero(Z(net.b.Z, fc)[i])
    /\ \E i \in 1..len(fc) :
           IsZero(Z(net.a.Z, fc)[i]) /\ Z(net.b.Z, fc)[i].im.n # 0

\* ------------------------------------------------------------------------
\* Claims about driving a waveform through a two-port (SpecWaveform)
\* ------------------------------------------------------------------------
\* a drive of a waveform of at least two samples has been made
Driven == hist.op = "rshift" /\ Len(hist.self.time) >= 2

\* the number of samples of the driven waveform
NSamples == Len(hist.self.time)

\* C12: driving a waveform of N samples builds padded time and voltage
\* traces of 3N samples with the original voltage at the indices N..2N-1,
\* and the assignment of the original samples into the buffer raises nothing.
C12_PaddingFits ==
    Driven =>
        /\ err = "none"
        /\ Len(pad.time) = 3 * NSamples
        /\ Len(pad.voltage) = 3 * NSamples
        /\ SubSeq(pad.voltage, NSamples + 1, 2 * NSamples) = hist.self.voltage

\* C13: in the padded voltage trace of a drive that completes, the first N
\* samples equal the first original sample and the last N samples, the very
\* last one included, equal the last original sample.
C13_PaddingReplicates ==
    (Driven /\ err = "none") =>
        \A i \in 1..Len(pad.voltage) :
            /\ i <= NSamples => pad.voltage[i] = hist.self.voltage[1]
            /\ i > Len(pad.voltage) - NSamples =>
                   pad.voltage[i] = hist.self.voltage[NSamples]

\* C14: driving a waveform of N >= 2 samples through any device returns a
\* waveform of N time samples and N voltage samples with the input's tb and tr.
C14_ReturnsNSamples ==
    Driven =>
        /\ vo # NoWave
        /\ Len(vo.time) = NSamples
        /\ Len(vo.voltage) = NSamples
        /\ vo.tb = hist.self.tb
        /\ vo.tr = hist.self.tr

\* the input-current trace a completed drive recovers from its padded trace:
\* the inverse transform of spectrum/Zin without the padding
RecoveredCurrent ==
    SubSeq(ifft(SVDiv(fft(pad.voltage, Len(pad.voltage)),
                      Zin_at(net, FreqOfTransform(Len(pad.voltage)))),
                Len(pad.voltage)),
           NSamples + 1, Len(pad.voltage) - NSamples)

\* C15 as stated: the waveform a drive returns carries the recovered
\* input-current trace in its own current field.
C15_ReturnedCarriesCurrent ==
    (Driven /\ vo # NoWave) => vo.current = RecoveredCurrent

\* C15 amended: the waveform a drive returns has an all-zero current of N
\* samples; the recovered input-current trace is stored in the current field
\* of the input waveform (through a shunt resistor of 2 ohms it is half the
\* input voltage, sample by sample).
C15_InputCarriesCurrent ==
    (Driven /\ vo # NoWave) =>
        /\ vo.current = zeros(NSamples)
        /\ vi.current = RecoveredCurrent
        /\ net = Shunt(R(2)) =>
               \A i \in 1..NSamples :
                   vi.current[i] = SDiv(hist.self.voltage[i], CInt(2))

C15_Witness ==
    /\ Driven
    /\ vo # NoWave
    /\ net = Shunt(R(2))
    /\ vi.current # zeros(NSamples)

\* C16 as stated: after a drive every field of the input waveform is as it
\* was before, its current still all zeros.
C16_InputUnchanged ==
    Driven => (vi = hist.self /\ vi.current = zeros(NSamples))

\* C16 amended: after a drive the input waveform's time, voltage, tb and tr
\* are as they were before; its current is as before when the drive raised
\* and is overwritten by the recovered input-current trace when it returned.
C16_InputUnchangedButCurrent ==
    Driven =>
        /\ vi.time = hist.self.time
        /\ vi.voltage = hist.self.voltage
        /\ vi.tb = hist.self.tb
        /\ vi.tr = hist.self.tr
        /\ err # "none" => vi.current = hist.self.current
        /\ err = "none" => vi.current = RecoveredCurrent

\* a drive that returned and left a current that is not all zeros, made on
\* a waveform that had been driven before
C16_Witness ==
    /\ Driven
    /\ err = "none"
    /\ vi.current # zeros(NSamples)
    /\ hist.self.current # zeros(NSamples)
    /\ vi.current # hist.self.current

\* the waveform driven holds one voltage level at every sample
ConstantInput == \A i \in 1..NSamples : hist.self.voltage[i] = hist.self.voltage[1]

\* C17: a drive of a constant waveform through a lossless line T that
\* completes returns that constant at every voltage sample.
C17_ConstantThroughLine ==
    (Driven /\ err = "none" /\ net.tag = "T" /\ ConstantInput) =>
        \A i \in 1..Len(vo.voltage) : vo.voltage[i] = hist.self.voltage[1]

\* ------------------------------------------------------------------------
\* Claims about the lossy line (SpecLossyLine)
\* ------------------------------------------------------------------------
\* |f| of a real sample
cabs(h) == Cx(RAbs(h.re), RZero)

\* C18: at every frequency sample f, negative, zero or positive, the series
\* resistance term of W is R0 + Rs*(1+j)*sqrt(|f|) and the shunt conductance
\* term is G0 plus the dielectric term.
C18_LossTerms ==
    out.op = "W.A" =>
        \A i \in 1..len(fc) :
            /\ out.val.R[i] =
                   CAdd(CInt(net.R0),
                        CMul(CMul(CInt(net.Rs), Cx(RInt(1), RInt(1))),
                             csqrt(cabs(fc.hz[i]))))
            /\ out.val.G[i] = CAdd(CInt(net.G0), W_G_dielectric(net, fc)[i])

\* ------------------------------------------------------------------------
\* Claims about the ferrite interpolant (SpecFerrite)
\* ------------------------------------------------------------------------
\* the last call was Lb(F, R, X) with lists of different lengths
LengthsDiffer ==
    \/ Len(hist.self.LogF) # Len(hist.self.R)
    \/ Len(hist.self.LogF) # Len(hist.self.X)

\* C19: Lb(F, R, X) raises RuntimeError whenever len(F) differs from len(R)
\* or from len(X), with no interpolation object built and no Lb object
\* made; with three lists of one length it does not raise RuntimeError.
C19_LengthCheck ==
    hist.op = "Lb" =>
        /\ LengthsDiffer =>
               /\ err = "RuntimeError"
               /\ out.val = << >>
               /\ x = hist.self.was
        /\ ~LengthsDiffer => err # "RuntimeError"

C19_Witness ==
    /\ hist.op = "Lb"
    /\ Len(hist.self.LogF) = Len(hist.self.R)
    /\ Len(hist.self.LogF) # Len(hist.self.X)
    /\ Len(hist.self.LogF) >= 2
    /\ err = "RuntimeError"
    /\ x = OnePort

StrictlyIncreasing(s) == \A i \in 1..(Len(s) - 1) : s[i] < s[i + 1]

\* C20: every Lb object has at least two breakpoints, in strictly
\* increasing order of frequency, and as many resistances and reactances;
\* a call of Lb with other lists raises.
C20_BreakpointsValidated ==
    /\ x.tag = "Lb" =>
           /\ Len(x.R.x) >= 2
           /\ StrictlyIncreasing(x.R.x)
           /\ x.X.x = x.R.x
           /\ Len(x.R.y) = Len(x.R.x)
           /\ Len(x.X.y) = Len(x.R.x)
    /\ (hist.op = "Lb" /\ ~StrictlyIncreasing(hist.self.LogF)) => err # "none"

\* ------------------------------------------------------------------------
\* Claims about the waveform generators (SpecGenerator)
\* ------------------------------------------------------------------------
\* the Gauss arguments of the last generator call
GaussCall == IF hist.op = "Clock" THEN hist.self.gauss ELSE hist.self

\* the last call was Gauss(...) or Clock(...)
GaussCalled == hist.op \in {"Gauss", "Clock"}

\* the level of a state: v1 for "0", v2 for "1"
LevelOf(state) == IF state = 1 THEN GaussCall.v2 ELSE GaussCall.v1

\* the mid-level (v1+v2)/2 as a sample
MidLevel == [a |-> RMul(RMk(1, 2, 0), RInt(GaussCall.v1 + GaussCall.v2)),
             b |-> RZero, arg |-> RZero]

\* the bits k >= 1 (counted from 0) at whose boundary the state changes
Transitions == {k \in 1..(Len(GaussCall.states) - 1) :
                    GaussCall.states[k + 1] # GaussCall.states[k]}

\* sample k*resolution + 2*tr*resolution/tb exists and is at mid-level
MidAt(k) ==
    /\ k * GaussCall.resolution + 2 * GaussCall.tr + 1 <= Len(vi.voltage)
    /\ vi.voltage[k * GaussCall.resolution + 2 * GaussCall.tr + 1] = MidLevel

\* C22 as stated: with tj = 0 the sample 2*tr after every bit boundary at
\* which the state changes is at the mid-level (v1+v2)/2, whatever tr is.
C22_MidpointAtTwoTr ==
    (GaussCalled /\ err = "none" /\ GaussCall.tj = 0) =>
        \A k \in Transitions : MidAt(k)

\* C22, amended: with tj = 0 and 2*tr < tb the sample 2*tr after every bit
\* boundary at which the state changes is at the mid-level (v1+v2)/2.
C22_MidpointAtTwoTrInsideBit ==
    (GaussCalled /\ err = "none" /\ GaussCall.tj = 0
        /\ 2 * GaussCall.tr < GaussCall.tb) =>
        \A k \in Transitions : MidAt(k)

C22_Witness ==
    /\ hist.op = "Gauss"
    /\ err = "none"
    /\ GaussCall.tj = 0
    /\ 2 * GaussCall.tr < GaussCall.tb
    /\ GaussCall.states = << 0, 1, 0 >>
    /\ vi.voltage[GaussCall.resolution + 2 * GaussCall.tr + 1] = MidLevel
    /\ vi.voltage[2 * GaussCall.resolution + 2 * GaussCall.tr + 1] = MidLevel

\* the samples at which the loop exchanged the levels
Edges(passes) == {i \in 2..Len(passes) : passes[i].v2 # passes[i - 1].v2}

\* C23: Clock(periods) makes exactly 2*periods states that alternate from 0
\* (0, 1, 0, 1, ...), consecutive states differ, and the waveform generated
\* has exactly 2*periods - 1 transitions.
C23_ClockAlternates ==
    hist.op = "Clock" =>
        /\ Len(GaussCall.states) = 2 * hist.self.periods
        /\ \A i \in 1..Len(GaussCall.states) : GaussCall.states[i] = (i - 1) % 2
        /\ \A i \in 1..(Len(GaussCall.states) - 1) :
               GaussCall.states[i] # GaussCall.states[i + 1]
        /\ err = "none" =>
               /\ Cardinality(Edges(out.val)) = 2 * hist.self.periods - 1
               /\ Len(vi.voltage) = 2 * hist.self.periods * GaussCall.resolution

C23_Witness ==
    /\ hist.op = "Clock"
    /\ hist.self.periods = 2
    /\ err = "none"
    /\ GaussCall.states = << 0, 1, 0, 1 >>
    /\ Cardinality(Edges(out.val)) = 3

\* the state and the edge start time before pass i
StateBefore(i) == IF i = 1 THEN GaussCall.states[1] ELSE out.val[i - 1].state

TdBefore(i) ==
    IF i = 1 THEN -(Len(GaussCall.states) * GaussCall.tb) ELSE out.val[i - 1].td

\* C25: after each pass i of the Gauss loop, v2 is the level of the state
\* of sample i's bit (v2 argument for 1, v1 argument for 0), whatever the
\* first state; td changes only at a sample whose state differs from the
\* previous sample's; and a sample taken long enough after the edge start
\* (erf saturated) is at the level of its state.
C25_LoopInvariant ==
    GaussCalled =>
        \A i \in 1..Len(out.val) :
            /\ out.val[i].state = GaussCall.states[((i - 1) \div GaussCall.resolution) + 1]
            /\ out.val[i].v2 = LevelOf(out.val[i].state)
            /\ out.val[i].td # TdBefore(i) => out.val[i].state # StateBefore(i)
            /\ (out.val[i].tn - out.val[i].td >= (2 + ErfSaturation) * GaussCall.tr) =>
                   out.val[i].voltage =
                       [a |-> RInt(LevelOf(out.val[i].state)), b |-> RZero, arg |-> RZero]

C25_Witness ==
    /\ hist.op = "Gauss"
    /\ GaussCall.states = << 1, 0, 1 >>
    /\ GaussCall.tj = 1
    /\ GaussCall.tr = 1
    /\ err = "none"
    /\ Len(out.val) = 3 * GaussCall.resolution
    /\ out.val[Len(out.val)].v2 = GaussCall.v2
    /\ out.val[GaussCall.resolution + 1].td # out.val[GaussCall.resolution].td
    /\ out.val[GaussCall.resolution].voltage =
           [a |-> RInt(GaussCall.v2), b |-> RZero, arg |-> RZero]

\* C27: Waveform(time, voltage, tb, tr) with sequences of different lengths
\* raises RuntimeError and makes no object; with equal lengths the new
\* waveform's current is all zeros, of that length.
C27_LengthMismatchRejected ==
    hist.op = "Waveform" =>
        /\ Len(hist.self.time) # Len(hist.self.voltage) =>
               /\ err = "RuntimeError"
               /\ vi = NoWave
        /\ Len(hist.self.time) = Len(hist.self.voltage) =>
               /\ err = "none"
               /\ vi.time = hist.self.time
               /\ vi.current = zeros(Len(hist.self.time))

\* ------------------------------------------------------------------------
\* Claims about ferrite queries (SpecQuery)
\* ------------------------------------------------------------------------
\* the breakpoint frequencies of the ferrite, lowest and highest
FirstBreakpoint == CHOOSE b \in {x.R.x[j] : j \in 1..Len(x.R.x)} :
                       \A j \in 1..Len(x.R.x) : b <= x.R.x[j]

LastBreakpoint == CHOOSE b \in {x.R.x[j] : j \in 1..Len(x.R.x)} :
                      \A j \in 1..Len(x.R.x) : b >= x.R.x[j]

\* sample i of fc lies outside the breakpoints
Outside(i) ==
    \/ RLess(fc.hz[i].re, RInt(FirstBreakpoint))
    \/ RLess(RInt(LastBreakpoint), fc.hz[i].re)

\* the point (h, v) lies on the line through (xlo, ylo) and (xhi, yhi)
OnLine(xlo, xhi, ylo, yhi, h, v) ==
    RMul(RSub(v, RInt(ylo)), RInt(xhi - xlo)) = RMul(RInt(yhi - ylo), RSub(h, RInt(xlo)))

\* z = R_interp(h) + j*X_interp(h): on each segment that holds h, the real
\* part is on the line through the R breakpoints and the imaginary part on
\* the line through the X breakpoints
PiecewiseLinear(h, z) ==
    /\ z.k = "fin"
    /\ \A j \in 1..(Len(x.R.x) - 1) :
           (~RLess(h, RInt(x.R.x[j])) /\ ~RLess(RInt(x.R.x[j + 1]), h)) =>
               /\ OnLine(x.R.x[j], x.R.x[j + 1], x.R.y[j], x.R.y[j + 1], h, z.re)
               /\ OnLine(x.X.x[j], x.X.x[j + 1], x.X.y[j], x.X.y[j + 1], h, z.im)

\* the value at the nearest end of the curve
Clamped(i) ==
    IF RLess(fc.hz[i].re, RInt(FirstBreakpoint))
    THEN Cx(RInt(x.R.y[1]), RInt(x.X.y[1]))
    ELSE Cx(RInt(x.R.y[Len(x.R.y)]), RInt(x.X.y[Len(x.X.y)]))

\* C21 as stated: Lb.Z never raises for a frequency below the first or
\* above the last breakpoint but returns the value at the nearest end of the
\* curve; inside the range it returns the piecewise-linear value
\* R_interp + j*X_interp.
C21_ClampsOutsideRange ==
    (hist.op = "Z" /\ StrictlyIncreasing(x.R.x)) =>
        /\ err = "none"
        /\ \A i \in 1..Len(fc.hz) :
               IF Outside(i) THEN out.val[i] = Clamped(i)
               ELSE PiecewiseLinear(fc.hz[i].re, out.val[i])

\* C21, amended: Lb.Z raises ValueError when a frequency is below the lowest
\* or above the highest breakpoint; with every frequency inside the range
\* of strictly increasing breakpoints it returns the piecewise-linear value
\* R_interp + j*X_interp.
C21_RaisesOutsideRange ==
    hist.op = "Z" =>
        /\ (\E i \in 1..Len(fc.hz) : Outside(i)) => (err = "ValueError" /\ out = NoOut)
        /\ ((\A i \in 1..Len(fc.hz) : ~Outside(i)) /\ StrictlyIncreasing(x.R.x)) =>
               /\ err = "none"
               /\ Len(out.val) = Len(fc.hz)
               /\ \A i \in 1..Len(fc.hz) : PiecewiseLinear(fc.hz[i].re, out.val[i])

C21_Witness ==
    /\ hist.op = "Z"
    /\ x.R.x = << 0, 1, 2 >>
    /\ fc.hz = << CInt(1), CInt(3) >>
    /\ err = "ValueError"

\* ------------------------------------------------------------------------
\* Claims about the determinant of the two-port matrices (SpecTwoPort)
\* ------------------------------------------------------------------------
\* the two-port is built only from Shunt, Series and Connect
RECURSIVE OnlyShuntSeriesConnect(_)
OnlyShuntSeriesConnect(t) ==
    IF t.tag = "Connect" THEN OnlyShuntSeriesConnect(t.a) /\ OnlyShuntSeriesConnect(t.b)
    ELSE t.tag \in {"Shunt", "Series"}

\* A*D - B*C of a 2x2 matrix
det(M) == CSub(CMul(M[1][1], M[2][2]), CMul(M[1][2], M[2][1]))

\* C26: a two-port built only from Shunt, Series and Connect has an ABCD
\* matrix of determinant exactly 1 at every sample, 1e18 substitutes
\* included, and the inversion in Zout and Gr never meets a singular matrix
\* (no LinAlgError).
C26_DeterminantOne ==
    OnlyShuntSeriesConnect(net) =>
        /\ err # "LinAlgError"
        /\ out.op = "A" => \A i \in 1..len(fc) : det(Slice(out.val, i)) = COne

====
